---- MODULE Spec2Model ----
(***************************************************************************)
(* A model of the storage / ingestion core of MemorizedMCP-TS:             *)
(*   - the relational store (SQLite tables, foreign keys, FTS triggers),   *)
(*   - the SQLiteClient transaction wrapper on its single connection,      *)
(*   - the Vectra chunk-vector collection,                                 *)
(*   - DefaultDocumentService.ingest / deleteDocument,                     *)
(*   - SlidingWindowTextSplitter.split,                                    *)
(*   - MemoryRepository.create / replaceReferences,                        *)
(*   - KnowledgeGraphRepository entity upserts and the knowledge-graph     *)
(*     service methods built on them,                                      *)
(*   - the repository statements that feed the full-text shadow tables,    *)
(*   - the knowledge-graph edges, readGraph and findPath,                  *)
(*   - DefaultSearchService.searchMemories (hybrid scoring),               *)
(*   - DefaultMemoryService.addMemory / updateMemory / deleteMemory,       *)
(*   - VectraAdapter.initialize and the memory vector collection,          *)
(*   - JobScheduler.register / runJobNow / #execute,                       *)
(*   - entity tags (tagEntity, getTags) and the filters of searchMemories. *)
(* Each asynchronous method is cut at its await points: one action is one  *)
(* synchronous segment of the JavaScript event loop.                       *)
(***************************************************************************)
EXTENDS Integers, Sequences, FiniteSets, Bags, TLC

(***************************************************************************)
(* Bounds of the model.                                                    *)
(***************************************************************************)
\* texts are identified by their length, 0..MaxTextLen
MaxTextLen == 1
\* options.chunkSize ranges over 1..MaxChunkSize (the schema's 100..4000, scaled)
MaxChunkSize == 1
\* options.chunkOverlap ranges over 0..MaxChunkOverlap (the schema's 0..400,
\* scaled; as in the schema the largest overlap is not below the smallest size)
MaxChunkOverlap == 1
\* number of distinct identifiers randomUUID() can hand out
MaxIds == 3
\* concurrent callers of the SQLiteClient
MaxTasks == 2
\* references handed to one MemoryRepository.create call
MaxRefs == 2
\* references name documents 1..MaxRefDoc
MaxRefDoc == 1
\* Date.now() ranges over 1..MaxTime
MaxTime == 2
\* the splitter is exercised on texts of length 0..MaxSplitLen
MaxSplitLen == 25
\* ... with chunkSize in 1..MaxSplitChunk and chunkOverlap in 0..MaxSplitChunk
MaxSplitChunk == 10

Ids == 1..MaxIds
\* the entity names that occur
Names == {"Alice", "Bob"}
Times == 1..MaxTime
Texts == 0..MaxTextLen
NoId == 0
\* an absent optional string / an absent optional text / no hash
Null == "null"
NoText == -1
NoHash == <<>>

VARIABLES
  db,            \* the committed-or-pending contents of the SQLite connection
  txOpen,        \* TRUE between BEGIN IMMEDIATE and COMMIT / ROLLBACK
  txSnapshot,    \* contents at BEGIN, restored by ROLLBACK
  chunkVectors,  \* Vectra document index: chunk id -> metadata
  ingest,        \* the in-flight DefaultDocumentService.ingest call
  lastIngest,    \* outcome of the most recently finished ingest call
  prevIngest,    \* outcome of the ingest call finished just before that one
  pre,           \* the stores as they were when the in-flight ingest was called
  deletedDocs,   \* ids for which deleteDocument has succeeded
  now,           \* Date.now()
  sp,            \* SlidingWindowTextSplitter.split: locals of the running call
  tasks,         \* concurrent callers of the SQLiteClient (event-loop tasks)
  txlog,         \* bookkeeping about the open transaction and its violations
  seen,          \* per entity id, the least firstSeen / greatest lastSeen supplied
  walk,          \* readGraph / findPath: locals of the running call
  search,        \* searchMemories: the hits collected and the results returned
  memoryVectors, \* Vectra memory index: memory id -> metadata
  deletedMemories, \* ids for which deleteMemory has completed
  lastCall,      \* outcome of the most recently finished service call
  vectra,        \* VectraAdapter: its flag, the indexes on disk, its callers
  sched          \* JobScheduler: registered jobs, runs in flight, markRun calls

\* the stores and calls of the knowledge-graph, search and memory services
ServiceVars == <<walk, search, memoryVectors, deletedMemories, lastCall>>

\* the vector adapter's initialisation and the job scheduler
SystemVars == <<vectra, sched>>

vars == <<db, txOpen, txSnapshot, chunkVectors, ingest, lastIngest, prevIngest,
          pre, deletedDocs, now, sp, tasks, txlog, seen, ServiceVars,
                 SystemVars>>

(***************************************************************************)
(* Small helpers.                                                          *)
(***************************************************************************)
Min2(a, b) == IF a <= b THEN a ELSE b
Max2(a, b) == IF a >= b THEN a ELSE b
SetMin(S) == CHOOSE x \in S : \A y \in S : x <= y
SetMax(S) == CHOOSE x \in S : \A y \in S : x >= y
Range(s) == {s[i] : i \in DOMAIN s}

\* rows of bag B that satisfy Keep, with their multiplicities
BagFilter(B, Keep(_)) ==
  [r \in {x \in DOMAIN B : Keep(x)} |-> B[r]]

RECURSIVE BagCount(_, _)
BagCount(B, S) ==
  IF S = {} THEN 0
  ELSE LET x == CHOOSE y \in S : TRUE IN B[x] + BagCount(B, S \ {x})

\* the bag obtained by rewriting every row of B with F
BagMap(B, F(_)) ==
  [r \in {F(x) : x \in DOMAIN B} |->
     BagCount(B, {x \in DOMAIN B : F(x) = r})]

BagAdd(B, r) == B (+) SetToBag({r})

(***************************************************************************)
(* The relational store: sql/migrations/0001_initial_schema.sql.           *)
(* db is a record of tables.  The three FTS5 shadow tables have no key,    *)
(* so they are bags of rows.  Every statement operator below takes the     *)
(* store and returns the store after the statement, triggers and foreign   *)
(* key actions included; X_ok is the condition under which the statement   *)
(* does not fail a constraint.                                             *)
(***************************************************************************)
EmptyDb ==
  [documents |-> {}, doc_chunks |-> {}, memories |-> {}, memory_refs |-> {},
   entities |-> {}, kg_edges |-> {}, fts_memories |-> EmptyBag,
   fts_doc_chunks |-> EmptyBag, fts_entities |-> EmptyBag]

\* COALESCE(x, '')
Coalesce(x) == IF x = Null THEN "" ELSE x

\* ---- triggers on memories ----
trg_memories_ai(d, new) ==
  [d EXCEPT !.fts_memories =
     BagAdd(@, [memory_id |-> new.id, content |-> new.content,
                summary |-> Coalesce(new.summary), layer |-> new.layer])]

trg_memories_au(d, old, new) ==
  [d EXCEPT !.fts_memories =
     BagMap(@, LAMBDA r : IF r.memory_id = old.id
                          THEN [r EXCEPT !.content = new.content,
                                         !.summary = Coalesce(new.summary),
                                         !.layer = new.layer]
                          ELSE r)]

trg_memories_ad(d, old) ==
  [d EXCEPT !.fts_memories = BagFilter(@, LAMBDA r : r.memory_id # old.id)]

\* ---- triggers on doc_chunks ----
trg_doc_chunks_ai(d, new) ==
  [d EXCEPT !.fts_doc_chunks =
     BagAdd(@, [chunk_id |-> new.id, doc_id |-> new.doc_id,
                content |-> new.content])]

trg_doc_chunks_au(d, old, new) ==
  [d EXCEPT !.fts_doc_chunks =
     BagMap(@, LAMBDA r : IF r.chunk_id = old.id
                          THEN [r EXCEPT !.content = new.content,
                                         !.doc_id = new.doc_id]
                          ELSE r)]

\* a schema without the delete trigger on doc_chunks
trg_doc_chunks_ad_Missing(d, old) == d

trg_doc_chunks_ad(d, old) ==
  [d EXCEPT !.fts_doc_chunks = BagFilter(@, LAMBDA r : r.chunk_id # old.id)]

\* ---- triggers on entities ----
trg_entities_ai(d, new) ==
  [d EXCEPT !.fts_entities =
     BagAdd(@, [entity_id |-> new.id, name |-> new.name, type |-> new.type,
                tags |-> new.tags])]

trg_entities_au(d, old, new) ==
  [d EXCEPT !.fts_entities =
     BagMap(@, LAMBDA r : IF r.entity_id = old.id
                          THEN [r EXCEPT !.name = new.name, !.type = new.type,
                                         !.tags = new.tags]
                          ELSE r)]

trg_entities_ad(d, old) ==
  [d EXCEPT !.fts_entities = BagFilter(@, LAMBDA r : r.entity_id # old.id)]

\* DELETE of a set of doc_chunks rows, firing trg_doc_chunks_ad for each row
RECURSIVE DeleteChunkRows(_, _)
DeleteChunkRows(d, rows) ==
  IF rows = {} THEN d
  ELSE LET r == CHOOSE x \in rows : TRUE
       IN DeleteChunkRows(
            trg_doc_chunks_ad([d EXCEPT !.doc_chunks = @ \ {r}], r),
            rows \ {r})

\* ---- DocumentRepository ----
DocumentRepository_findById(d, id) == {r \in d.documents : r.id = id}
DocumentRepository_findByHash(d, hash) == {r \in d.documents : r.hash = hash}

\* INSERT INTO documents: id is the primary key, hash is UNIQUE
DocumentRepository_create_ok(d, id, hash) ==
  /\ DocumentRepository_findById(d, id) = {}
  /\ DocumentRepository_findByHash(d, hash) = {}

DocumentRepository_create(d, id, hash) ==
  [d EXCEPT !.documents = @ \cup {[id |-> id, hash |-> hash]}]

\* a delete whose cascade leaves memory_refs alone
DocumentRepository_delete_KeepRefs(d, id) ==
  LET d1 == [d EXCEPT !.documents = {r \in @ : r.id # id}]
  IN DeleteChunkRows(d1, {c \in d1.doc_chunks : c.doc_id = id})

\* DELETE FROM documents WHERE id = ?  with the ON DELETE CASCADE of
\* doc_chunks.doc_id and memory_refs.doc_id; a cascaded delete of a
\* doc_chunks row fires trg_doc_chunks_ad like any other delete
DocumentRepository_delete(d, id) ==
  LET d1 == [d EXCEPT !.documents = {r \in @ : r.id # id}]
      d2 == DeleteChunkRows(d1, {c \in d1.doc_chunks : c.doc_id = id})
  IN [d2 EXCEPT !.memory_refs = {r \in @ : r.doc_id # id}]

\* ---- DocumentChunkRepository ----
\* a listing that ignores the document
DocumentChunkRepository_listByDocument_AnyDocument(d, docId) == d.doc_chunks

\* SELECT * FROM doc_chunks WHERE doc_id = ?
DocumentChunkRepository_listByDocument(d, docId) ==
  {c \in d.doc_chunks : c.doc_id = docId}

\* INSERT INTO doc_chunks: primary key, FOREIGN KEY (doc_id), CHECK
DocumentChunkRepository_insert_ok(d, row) ==
  /\ \A c \in d.doc_chunks : c.id # row.id
  /\ DocumentRepository_findById(d, row.doc_id) # {}
  /\ row.position_end >= row.position_start

DocumentChunkRepository_insert(d, row) ==
  trg_doc_chunks_ai([d EXCEPT !.doc_chunks = @ \cup {row}], row)

\* UPDATE doc_chunks SET <the fields of patch> WHERE id = ?
DocumentChunkRepository_update(d, id, patch) ==
  LET old == {c \in d.doc_chunks : c.id = id}
  IN IF old = {} THEN d
     ELSE LET o == CHOOSE c \in old : TRUE
              n == [f \in DOMAIN o |->
                      IF f \in DOMAIN patch THEN patch[f] ELSE o[f]]
          IN trg_doc_chunks_au(
               [d EXCEPT !.doc_chunks = (@ \ {o}) \cup {n}], o, n)

DocumentChunkRepository_delete(d, id) ==
  DeleteChunkRows(d, {c \in d.doc_chunks : c.id = id})

DocumentChunkRepository_deleteByDocument(d, docId) ==
  DeleteChunkRows(d, {c \in d.doc_chunks : c.doc_id = docId})

\* ---- MemoryRepository: single statements ----
MemoryRepository_findById(d, id) == {m \in d.memories : m.id = id}

\* INSERT INTO memories: primary key, CHECK (importance BETWEEN 0.0 AND 1.0);
\* importance is held in tenths
InsertMemory_ok(d, row) ==
  /\ MemoryRepository_findById(d, row.id) = {}
  /\ row.importance >= 0 /\ row.importance <= 10

InsertMemory(d, row) ==
  trg_memories_ai([d EXCEPT !.memories = @ \cup {row}], row)

\* UPDATE memories SET <the fields of patch> WHERE id = ?
UpdateMemory_ok(d, id, patch) ==
  \A m \in MemoryRepository_findById(d, id) :
    "importance" \in DOMAIN patch =>
       (patch.importance >= 0 /\ patch.importance <= 10)

UpdateMemory(d, id, patch) ==
  LET old == MemoryRepository_findById(d, id)
  IN IF old = {} THEN d
     ELSE LET o == CHOOSE m \in old : TRUE
              n == [f \in DOMAIN o |->
                      IF f \in DOMAIN patch THEN patch[f] ELSE o[f]]
          IN trg_memories_au(
               [d EXCEPT !.memories = (@ \ {o}) \cup {n}], o, n)

\* DELETE FROM memories WHERE id = ?  with the cascade of memory_refs
MemoryRepository_delete(d, id) ==
  LET old == MemoryRepository_findById(d, id)
  IN IF old = {} THEN d
     ELSE LET o == CHOOSE m \in old : TRUE
              d1 == [d EXCEPT !.memories = @ \ {o},
                              !.memory_refs = {r \in @ : r.memory_id # id}]
          IN trg_memories_ad(d1, o)

MemoryRepository_listReferences(d, memoryId) ==
  {r \in d.memory_refs : r.memory_id = memoryId}

\* DELETE FROM memory_refs WHERE memory_id = ?
DeleteReferences(d, memoryId) ==
  [d EXCEPT !.memory_refs = {r \in @ : r.memory_id # memoryId}]

\* INSERT INTO memory_refs: FOREIGN KEY (memory_id), FOREIGN KEY (doc_id),
\* UNIQUE (memory_id, doc_id, chunk_id); a NULL chunk_id (NoId) never
\* conflicts
InsertReference_ok(d, memoryId, ref) ==
  /\ MemoryRepository_findById(d, memoryId) # {}
  /\ DocumentRepository_findById(d, ref.docId) # {}
  /\ ref.chunkId # NoId =>
       \A r \in d.memory_refs :
          ~(r.memory_id = memoryId /\ r.doc_id = ref.docId
            /\ r.chunk_id = ref.chunkId)

\* the rowid of the new row: any integer no row has (the code never reads it)
NextRefId(d) ==
  SetMin((1..(Cardinality(d.memory_refs) + 1)) \ {r.id : r \in d.memory_refs})

InsertReference(d, memoryId, ref) ==
  [d EXCEPT !.memory_refs = @ \cup
     {[id |-> NextRefId(d), memory_id |-> memoryId, doc_id |-> ref.docId,
       chunk_id |-> ref.chunkId]}]

(***************************************************************************)
(* VectraAdapter: the chunk-vector collection (upsert / query by docId).   *)
(***************************************************************************)
\* const topK = options.topK ?? 20
DefaultTopK == 20

\* an upsert that keys the item by the document instead of the chunk
VectraAdapter_upsertDocumentVector_ByDoc(cv, input) ==
  [id \in DOMAIN cv \cup {input.docId} |->
     IF id = input.docId
     THEN [chunkId |-> input.chunkId, docId |-> input.docId,
           positionStart |-> input.positionStart,
           positionEnd |-> input.positionEnd, vector |-> input.vector]
     ELSE cv[id]]

VectraAdapter_upsertDocumentVector(cv, input) ==
  [id \in DOMAIN cv \cup {input.chunkId} |->
     IF id = input.chunkId
     THEN [chunkId |-> input.chunkId, docId |-> input.docId,
           positionStart |-> input.positionStart,
           positionEnd |-> input.positionEnd, vector |-> input.vector]
     ELSE cv[id]]

\* queryItems with the filter {docId: {$eq: docId}}: the topK best entries
\* whose metadata satisfies the filter (which topK is left open)
VectraAdapter_queryDocumentChunks(cv, docId, topK) ==
  LET matching == {id \in DOMAIN cv : cv[id].docId = docId}
  IN IF Cardinality(matching) <= topK THEN matching
     ELSE CHOOSE S \in SUBSET matching : Cardinality(S) = topK

(***************************************************************************)
(* SlidingWindowTextSplitter.split on a text of the given length; a chunk  *)
(* is the pair of its start and end offsets.                               *)
(***************************************************************************)
SplitThrows(chunkSize, chunkOverlap) == chunkOverlap >= chunkSize

\* const end = Math.min(start + chunkSize, length)
SplitEnd(start, chunkSize, length) == Min2(start + chunkSize, length)

\* a start that skips the overlap
SplitNextStart_NoOverlap(end, chunkOverlap) == end

\* start = end - chunkOverlap
SplitNextStart(end, chunkOverlap) == end - chunkOverlap

RECURSIVE SplitFrom(_, _, _, _)
SplitFrom(start, length, chunkSize, chunkOverlap) ==
  IF ~(start < length) THEN <<>>
  ELSE LET end == SplitEnd(start, chunkSize, length)
       IN <<[start |-> start, end |-> end]>> \o
          (IF end = length THEN <<>>
           ELSE SplitFrom(SplitNextStart(end, chunkOverlap), length,
                          chunkSize, chunkOverlap))

Split(length, chunkSize, chunkOverlap) ==
  SplitFrom(0, length, chunkSize, chunkOverlap)

(***************************************************************************)
(* DefaultDocumentService.                                                 *)
(***************************************************************************)
\* createHash("sha256").update(content).digest("hex")
hashContent(text) == <<"sha256", text>>

\* text.slice(start, end) of the text t
Slice(t, start, end) == <<t, start, end>>

\* JavaScript truthiness of an optional string identified by its length
Truthy(x) == x # NoText /\ x > 0

\* no path in the request / the path of the request
NoPath == "undefined"
SomePath == "doc.txt"

\* the request fields that select the text: inline content, or a path,
\* with file the text the file at that path holds; the options of the
\* request are drawn where ingest reads them
Requests ==
  [content : Texts \cup {NoText}, path : {NoPath}, file : {0},
   hashOverride : {NoHash}]
  \cup [content : {NoText}, path : {SomePath}, file : Texts,
         hashOverride : {NoHash}]

\* the same requests with a hashOverride, here the hash of a one-character
\* text
RequestsWithHash ==
  {[r EXCEPT !.hashOverride = hashContent(1)] : r \in Requests}

NoRequest == [content |-> NoText, path |-> NoPath, file |-> 0,
              hashOverride |-> NoHash]

\* a hash computed from the text even when the request overrides it
IngestHash_IgnoreOverride(req, text) == hashContent(text)

\* const hash = parsed.hashOverride ?? this.#hashContent(text)
IngestHash(req, text) ==
  IF req.hashOverride # NoHash THEN req.hashOverride ELSE hashContent(text)

IdleIngest ==
  [pc |-> "idle", req |-> NoRequest, text |-> 0, docId |-> NoId,
   chunks |-> <<>>, index |-> 0, chunkId |-> NoId]

NoResult ==
  [status |-> "none", error |-> "none", stage |-> "none", hash |-> NoHash,
   docId |-> NoId, chunkCount |-> 0]

Stores == [db |-> db, chunkVectors |-> chunkVectors]
NoStores == [db |-> EmptyDb, chunkVectors |-> <<>>]

\* identifiers that still occur somewhere; randomUUID() returns none of them
UsedIds ==
  {r.id : r \in db.documents} \cup {c.id : c \in db.doc_chunks}
  \cup {c.doc_id : c \in db.doc_chunks}
  \cup {m.id : m \in db.memories} \cup {e.id : e \in db.entities}
  \cup DOMAIN chunkVectors \cup {chunkVectors[i].docId : i \in DOMAIN chunkVectors}
  \cup DOMAIN memoryVectors \cup deletedDocs \cup deletedMemories
  \cup {ingest.docId, ingest.chunkId, lastIngest.docId, prevIngest.docId}
  \cup {tasks[t].id : t \in DOMAIN tasks}

FreeIds == Ids \ UsedIds
randomUUID == SetMin(FreeIds)

(***************************************************************************)
(* KnowledgeGraphRepository: entity statements.                            *)
(***************************************************************************)
KnowledgeGraphRepository_findById(d, id) == {e \in d.entities : e.id = id}
KnowledgeGraphRepository_findByName(d, name) == {e \in d.entities : e.name = name}

\* a conflict update that overwrites first_seen instead of taking the minimum
UpsertConflictRow_OverwriteFirstSeen(old, excluded) ==
  [old EXCEPT !.type = excluded.type,
              !.count = excluded.count,
              !.first_seen = excluded.first_seen,
              !.last_seen = Max2(old.last_seen, excluded.last_seen),
              !.tags = excluded.tags]

\* the row an ON CONFLICT(name) DO UPDATE leaves behind
UpsertConflictRow(old, excluded) ==
  [old EXCEPT !.type = excluded.type,
              !.count = excluded.count,
              !.first_seen = Min2(old.first_seen, excluded.first_seen),
              !.last_seen = Max2(old.last_seen, excluded.last_seen),
              !.tags = excluded.tags]

\* INSERT INTO entities ... ON CONFLICT(name) DO UPDATE SET ...
KnowledgeGraphRepository_upsertEntity(d, record) ==
  LET old == KnowledgeGraphRepository_findByName(d, record.name)
  IN IF old = {}
     THEN trg_entities_ai([d EXCEPT !.entities = @ \cup {record}], record)
     ELSE LET o == CHOOSE e \in old : TRUE
              n == UpsertConflictRow(o, record)
          IN trg_entities_au(
               [d EXCEPT !.entities = (@ \ {o}) \cup {n}], o, n)

\* the record upsertEntity builds from its input and its defaults
NewEntityRecord(id, name, type, firstSeen, lastSeen, tags) ==
  [id |-> id, name |-> name, type |-> type, count |-> 0,
   first_seen |-> firstSeen, last_seen |-> lastSeen, tags |-> tags]

\* UPDATE entities SET last_seen = MAX(last_seen, ?), count = count + ?
KnowledgeGraphRepository_updateEntityActivity(d, id, timestamp, countIncrement) ==
  LET old == KnowledgeGraphRepository_findById(d, id)
  IN IF old = {} THEN d
     ELSE LET o == CHOOSE e \in old : TRUE
              n == [o EXCEPT !.last_seen = Max2(@, timestamp),
                             !.count = @ + countIncrement]
          IN trg_entities_au(
               [d EXCEPT !.entities = (@ \ {o}) \cup {n}], o, n)

\* UPDATE entities SET <name, type, tags of updates> WHERE id = ?;
\* name is UNIQUE
KnowledgeGraphRepository_updateEntity_ok(d, id, updates) ==
  "name" \in DOMAIN updates =>
     \A e \in d.entities : e.name = updates.name => e.id = id

KnowledgeGraphRepository_updateEntity(d, id, updates) ==
  LET old == KnowledgeGraphRepository_findById(d, id)
  IN IF old = {} THEN d
     ELSE LET o == CHOOSE e \in old : TRUE
              n == [f \in DOMAIN o |->
                      IF f \in DOMAIN updates THEN updates[f] ELSE o[f]]
          IN trg_entities_au(
               [d EXCEPT !.entities = (@ \ {o}) \cup {n}], o, n)

\* a delete that leaves the kg_edges rows of the entity in place
KnowledgeGraphRepository_deleteEntity_NoCascade(d, id) ==
  LET old == KnowledgeGraphRepository_findById(d, id)
  IN IF old = {} THEN d
     ELSE LET o == CHOOSE e \in old : TRUE
          IN trg_entities_ad([d EXCEPT !.entities = @ \ {o}], o)

\* DELETE FROM entities WHERE id = ?; kg_edges.src and kg_edges.dst are
\* declared ON DELETE CASCADE
KnowledgeGraphRepository_deleteEntity(d, id) ==
  LET old == KnowledgeGraphRepository_findById(d, id)
  IN IF old = {} THEN d
     ELSE LET o == CHOOSE e \in old : TRUE
          IN trg_entities_ad(
               [d EXCEPT !.entities = @ \ {o},
                         !.kg_edges = {r \in @ : r.src # id /\ r.dst # id}],
               o)

\* ---- kg_edges: rows [id, src, dst, relation] ----
KnowledgeGraphRepository_findEdgeById(d, id) == {r \in d.kg_edges : r.id = id}

\* FOREIGN KEY (src) / (dst) REFERENCES entities(id), foreign_keys = ON
KnowledgeGraphRepository_upsertEdge_ok(d, record) ==
  /\ KnowledgeGraphRepository_findById(d, record.src) # {}
  /\ KnowledgeGraphRepository_findById(d, record.dst) # {}

\* INSERT INTO kg_edges ... ON CONFLICT(id) DO UPDATE SET src, dst, relation
KnowledgeGraphRepository_upsertEdge(d, record) ==
  IF KnowledgeGraphRepository_upsertEdge_ok(d, record)
  THEN [d EXCEPT !.kg_edges = {r \in @ : r.id # record.id} \cup {record}]
  ELSE d

\* DELETE FROM kg_edges WHERE id = ?
KnowledgeGraphRepository_deleteEdge(d, id) ==
  [d EXCEPT !.kg_edges = {r \in @ : r.id # id}]

\* SELECT * FROM kg_edges WHERE src = ? OR dst = ?
KnowledgeGraphRepository_listEdgesForEntity(d, entityId) ==
  {r \in d.kg_edges : r.src = entityId \/ r.dst = entityId}

\* relationType left out of a request (or given as the empty string)
NoRelationType == ""

\* a query that leaves out the AND relation = ? term
KnowledgeGraphRepository_getEdgesByEntityAndType_AnyRelation(d, entityId, relationType) ==
  KnowledgeGraphRepository_listEdgesForEntity(d, entityId)

\* SELECT * FROM kg_edges WHERE (src = ? OR dst = ?) [AND relation = ?]
KnowledgeGraphRepository_getEdgesByEntityAndType(d, entityId, relationType) ==
  {r \in KnowledgeGraphRepository_listEdgesForEntity(d, entityId) :
     relationType # NoRelationType => r.relation = relationType}

(***************************************************************************)
(* DefaultDocumentService.ingest, one action per synchronous segment.      *)
(***************************************************************************)
EntityTypes == {"person", "organization"}

\* the type the extractor reports in the ingest model
ExtractedTypes == {"person"}

Result(status, error, stage, hash, docId, chunkCount) ==
  [status |-> status, error |-> error, stage |-> stage, hash |-> hash,
   docId |-> docId, chunkCount |-> chunkCount]

\* the call returns or throws: the task is over and its outcome is recorded
Finish(result) ==
  /\ ingest' = IdleIngest
  /\ prevIngest' = IF lastIngest.status = "ok" THEN lastIngest ELSE NoResult
  /\ lastIngest' = result

IngestUnchanged == UNCHANGED <<txOpen, txSnapshot, deletedDocs, now, sp, tasks, txlog, seen, ServiceVars, SystemVars>>

\* ingest(request): DocumentIngestionRequestSchema.parse, then await #loadContent
IngestCall(req) ==
  /\ ingest.pc = "idle"
  /\ pre' = Stores
  /\ IF req.path # NoPath \/ Truthy(req.content)
     THEN /\ ingest' = [IdleIngest EXCEPT !.pc = "load", !.req = req]
          /\ UNCHANGED <<lastIngest, prevIngest>>
     ELSE Finish(Result("error", "ValidationError", "schema", NoHash, NoId, 0))
  /\ UNCHANGED <<db, chunkVectors>>
  /\ IngestUnchanged

\* #loadContent resolved; hash, findByHash, and for a new hash
\* documentRepository.create and textSplitter.split with the request's
\* options.chunkSize and options.chunkOverlap, up to await embed
IngestLookup(chunkSize, chunkOverlap) ==
  /\ ingest.pc = "load"
  /\ LET req == ingest.req
         text == IF Truthy(req.content) THEN req.content ELSE req.file
         hash == IngestHash(req, text)
         existing == DocumentRepository_findByHash(db, hash)
     IN IF existing # {}
        THEN LET e == CHOOSE r \in existing : TRUE
             IN /\ Finish(Result("ok", "none", "existing", hash, e.id,
                     Cardinality(DocumentChunkRepository_listByDocument(db, e.id))))
                /\ UNCHANGED db
        ELSE /\ FreeIds # {}
             /\ DocumentRepository_create_ok(db, randomUUID, hash)
             /\ db' = DocumentRepository_create(db, randomUUID, hash)
             /\ IF SplitThrows(chunkSize, chunkOverlap)
                THEN Finish(Result("error", "ValidationError", "split", hash,
                                   randomUUID, 0))
                ELSE /\ ingest' = [ingest EXCEPT !.pc = "embed", !.text = text,
                                     !.docId = randomUUID,
                                     !.chunks = Split(text, chunkSize,
                                                      chunkOverlap)]
                     /\ UNCHANGED <<lastIngest, prevIngest>>
  \* the snapshot of the call is kept only if it ended in a validation error
  /\ pre' = IF lastIngest'.error = "ValidationError" /\ ingest'.pc = "idle"
            THEN pre ELSE NoStores
  /\ UNCHANGED chunkVectors
  /\ IngestUnchanged

\* #readFileText / stat rejected
IngestLoadFails ==
  /\ ingest.pc = "load"
  /\ ~Truthy(ingest.req.content)
  /\ Finish(Result("error", "IOError", "load", NoHash, NoId, 0))
  /\ pre' = NoStores
  /\ UNCHANGED <<db, chunkVectors>>
  /\ IngestUnchanged

IngestFails(error, stage) ==
  Finish(Result("error", error, stage, IngestHash(ingest.req, ingest.text),
                ingest.docId, 0))

\* the row chunkRepository.insert writes for chunk number i (from 1)
ChunkRow(id, ing, i) ==
  [id |-> id, doc_id |-> ing.docId,
   position_start |-> ing.chunks[i].start, position_end |-> ing.chunks[i].end,
   content |-> Slice(ing.text, ing.chunks[i].start, ing.chunks[i].end)]

\* the loop head of ingest with `done` chunks finished: either insert the
\* next chunk row and await its vector upsert, or leave the loop and read
\* options.detectEntities
IngestLoop(done, detectEntities) ==
  IF done < Len(ingest.chunks)
  THEN /\ FreeIds # {}
       /\ \/ /\ DocumentChunkRepository_insert_ok(db,
                         ChunkRow(randomUUID, ingest, done + 1))
             /\ db' = DocumentChunkRepository_insert(db,
                         ChunkRow(randomUUID, ingest, done + 1))
             /\ ingest' = [ingest EXCEPT !.pc = "vector", !.index = done,
                                          !.chunkId = randomUUID]
             /\ UNCHANGED <<lastIngest, prevIngest>>
          \/ /\ IngestFails("StoreError", "chunkInsert")
             /\ UNCHANGED db
  ELSE /\ UNCHANGED db
       /\ IF detectEntities
          THEN /\ ingest' = [ingest EXCEPT !.pc = "extract", !.index = done]
               /\ UNCHANGED <<lastIngest, prevIngest>>
          ELSE Finish(Result("ok", "none", "created",
                             IngestHash(ingest.req, ingest.text),
                             ingest.docId, done))

\* await this.#embeddings.embed(...) settles
IngestEmbedded(ok) ==
  /\ ingest.pc = "embed"
  /\ IF ok THEN /\ ingest' = [ingest EXCEPT !.pc = "summary"]
                /\ UNCHANGED <<lastIngest, prevIngest>>
     ELSE IngestFails("CollaboratorFailure", "embed")
  /\ UNCHANGED <<db, chunkVectors, pre>>
  /\ IngestUnchanged

\* await this.#generateSummaries(...) settles; the summarizer is called
\* once per chunk, so it can only fail when there is a chunk
IngestSummarized(ok, detectEntities) ==
  /\ ingest.pc = "summary"
  /\ IF ok THEN IngestLoop(0, detectEntities)
     ELSE /\ Len(ingest.chunks) > 0
          /\ IngestFails("CollaboratorFailure", "summary")
          /\ UNCHANGED db
  /\ UNCHANGED <<chunkVectors, pre>>
  /\ IngestUnchanged

\* await this.#vectra.upsertDocumentVector(...) settles
IngestVectorUpserted(ok, detectEntities) ==
  /\ ingest.pc = "vector"
  /\ IF ok
     THEN /\ chunkVectors' = VectraAdapter_upsertDocumentVector(chunkVectors,
               [chunkId |-> ingest.chunkId, docId |-> ingest.docId,
                vector |-> Slice(ingest.text,
                                 ingest.chunks[ingest.index + 1].start,
                                 ingest.chunks[ingest.index + 1].end),
                positionStart |-> ingest.chunks[ingest.index + 1].start,
                positionEnd |-> ingest.chunks[ingest.index + 1].end])
          /\ IngestLoop(ingest.index + 1, detectEntities)
     ELSE /\ IngestFails("CollaboratorFailure", "vector")
          /\ UNCHANGED <<db, chunkVectors>>
  /\ UNCHANGED pre
  /\ IngestUnchanged

\* knowledgeRepository.upsertEntity for every extracted entity
RECURSIVE UpsertExtracted(_, _, _, _, _)
UpsertExtracted(d, names, type, free, t) ==
  IF names = {} THEN d
  ELSE LET n == CHOOSE x \in names : TRUE
           id == SetMin(free)
       IN UpsertExtracted(
            KnowledgeGraphRepository_upsertEntity(d,
               NewEntityRecord(id, n, type, t, t, {})),
            names \ {n}, type, free \ {id}, t)

\* await this.#entityExtractor.extract(text) settles
IngestExtracted(ok, names, type) ==
  /\ ingest.pc = "extract"
  /\ IF ok
     THEN /\ Cardinality(FreeIds) >= Cardinality(names)
          /\ db' = UpsertExtracted(db, names, type, FreeIds, now)
          /\ Finish(Result("ok", "none", "created",
                           IngestHash(ingest.req, ingest.text),
                           ingest.docId, ingest.index))
     ELSE /\ names = {} /\ type = "person"
          /\ IngestFails("CollaboratorFailure", "extract")
          /\ UNCHANGED db
  /\ UNCHANGED <<chunkVectors, pre>>
  /\ IngestUnchanged

(***************************************************************************)
(* DefaultDocumentService.deleteDocument, DocumentChunkRepository.delete,  *)
(* and a crash of the process.                                             *)
(***************************************************************************)
ForgetResults ==
  /\ lastIngest' = NoResult
  /\ prevIngest' = NoResult
  /\ pre' = NoStores

\* deleteDocument({id}) for an existing document: the chunk rows, then the
\* document row; "Vectra vectors are cleaned up separately if needed"
deleteDocument(id) ==
  /\ ingest.pc = "idle"
  /\ DocumentRepository_findById(db, id) # {}
  /\ db' = DocumentRepository_delete(
             DocumentChunkRepository_deleteByDocument(db, id), id)
  /\ deletedDocs' = deletedDocs \cup {id}
  /\ ForgetResults
  /\ UNCHANGED <<chunkVectors, ingest>>
  /\ UNCHANGED <<txOpen, txSnapshot, now, sp, tasks, txlog, seen, ServiceVars, SystemVars>>

\* deleteDocument({id}) for a missing document throws and changes nothing
deleteDocumentNotFound(id) ==
  /\ ingest.pc = "idle"
  /\ DocumentRepository_findById(db, id) = {}
  /\ id \in UsedIds
  /\ ForgetResults
  /\ UNCHANGED <<db, chunkVectors, ingest, deletedDocs>>
  /\ UNCHANGED <<txOpen, txSnapshot, now, sp, tasks, txlog, seen, ServiceVars, SystemVars>>

\* chunkRepository.delete(id)
deleteChunk(id) ==
  /\ ingest.pc = "idle"
  /\ \E c \in db.doc_chunks : c.id = id
  /\ db' = DocumentChunkRepository_delete(db, id)
  /\ ForgetResults
  /\ UNCHANGED <<chunkVectors, ingest, deletedDocs>>
  /\ UNCHANGED <<txOpen, txSnapshot, now, sp, tasks, txlog, seen, ServiceVars, SystemVars>>

\* the process dies between two steps of an ingest and is restarted
Crash ==
  /\ ingest.pc # "idle"
  /\ ingest' = IdleIngest
  /\ ForgetResults
  /\ UNCHANGED <<db, chunkVectors, deletedDocs>>
  /\ UNCHANGED <<txOpen, txSnapshot, now, sp, tasks, txlog, seen, ServiceVars, SystemVars>>

IdleSplit ==
  [pc |-> "idle", length |-> 0, chunkSize |-> 1, chunkOverlap |-> 0,
   start |-> 0, chunks |-> <<>>]

NoTxLog == [owner |-> 0, foreign |-> {}, nestedBegin |-> FALSE,
            foreignInTx |-> FALSE, undoneForeign |-> FALSE]

\* no knowledge-graph traversal, search or service call has run yet
IdleWalk == [pc |-> "idle"]
IdleSearch == [pc |-> "idle"]
NoCall == [op |-> "none", status |-> "none", error |-> "none", id |-> NoId]

\* the concurrent callers of the VectraAdapter
VectraCallers == {1, 2}
IndexNames == {"memory", "document"}
IdleAdapterCall == [op |-> "none", pc |-> "idle", index |-> "none",
                    ok |-> FALSE, error |-> "none"]

\* a fresh VectraAdapter over a data root where disk tells which index exists;
\* created counts the index files this adapter has written
FreshVectra(disk) ==
  [initialized |-> FALSE, disk |-> disk,
   created |-> [i \in IndexNames |-> 0],
   calls |-> [c \in VectraCallers |-> IdleAdapterCall]]

IdleVectra == FreshVectra([i \in IndexNames |-> FALSE])

\* a JobScheduler with no job registered and an empty jobs table
IdleSched == [jobs |-> {}, table |-> <<>>, runs |-> <<>>]

SystemIdle ==
  /\ vectra = IdleVectra
  /\ sched = IdleSched

ServicesIdle ==
  /\ walk = IdleWalk
  /\ search = IdleSearch
  /\ memoryVectors = <<>>
  /\ deletedMemories = {}
  /\ lastCall = NoCall
  /\ SystemIdle

Init ==
  /\ db = EmptyDb
  /\ txOpen = FALSE
  /\ txSnapshot = EmptyDb
  /\ chunkVectors = <<>>
  /\ ingest = IdleIngest
  /\ lastIngest = NoResult
  /\ prevIngest = NoResult
  /\ pre = NoStores
  /\ deletedDocs = {}
  /\ now = 1
  /\ sp = IdleSplit
  /\ tasks = <<>>
  /\ txlog = NoTxLog
  /\ seen = <<>>
  /\ ServicesIdle

Next ==
  \/ \E req \in Requests : IngestCall(req)
  \/ \E chunkSize \in 1..MaxChunkSize, chunkOverlap \in 0..MaxChunkOverlap :
        IngestLookup(chunkSize, chunkOverlap)
  \/ IngestLoadFails
  \/ \E ok \in BOOLEAN : IngestEmbedded(ok)
  \/ \E ok \in BOOLEAN, detectEntities \in BOOLEAN :
        IngestSummarized(ok, detectEntities)
  \/ \E ok \in BOOLEAN, detectEntities \in BOOLEAN :
        IngestVectorUpserted(ok, detectEntities)
  \/ \E ok \in BOOLEAN, names \in SUBSET Names, type \in ExtractedTypes :
        IngestExtracted(ok, names, type)
  \/ \E id \in Ids : deleteDocument(id)
  \/ \E id \in Ids : deleteDocumentNotFound(id)
  \/ \E id \in Ids : deleteChunk(id)
  \/ Crash

Spec == Init /\ [][Next]_vars

(***************************************************************************)
(* Properties of document ingestion (specification Spec).                  *)
(***************************************************************************)
IngestFinished == ingest.pc = "idle"

TwiceInSequence ==
  /\ prevIngest.status = "ok"
  /\ lastIngest.status = "ok"
  /\ prevIngest.hash = lastIngest.hash

\* C1: two ingest calls in sequence with the same content (the same hash)
\* return the same document id and the same chunkCount, and afterwards the
\* documents table holds exactly one row with that hash.
C1_IdempotentIngest ==
  TwiceInSequence =>
    /\ lastIngest.docId = prevIngest.docId
    /\ lastIngest.chunkCount = prevIngest.chunkCount
    /\ Cardinality(DocumentRepository_findByHash(db, lastIngest.hash)) = 1

\* a document with a chunk was created by one call and found by the next,
\* with a second document in the table
C1_Witness ==
  /\ TwiceInSequence
  /\ prevIngest.stage = "created"
  /\ lastIngest.stage = "existing"
  /\ lastIngest.chunkCount = 1
  /\ Cardinality(db.documents) = 2

FailedAfterLookup ==
  /\ IngestFinished
  /\ lastIngest.status = "error"
  /\ lastIngest.stage \in {"split", "embed", "summary", "chunkInsert",
                           "vector", "extract"}

\* C2: when a step after the document lookup fails (splitting, embedding,
\* summary, a chunk insert, a vector upsert, entity extraction), then after
\* ingest has returned its error the store holds neither the document row
\* nor any chunk of that document.
C2_AllOrNothing ==
  FailedAfterLookup =>
    /\ DocumentRepository_findById(db, lastIngest.docId) = {}
    /\ DocumentChunkRepository_listByDocument(db, lastIngest.docId) = {}

\* C3: every entry of the chunk vector collection has a doc_chunks row
\* with the same id, in every reachable state.
C3_VectorHasRow ==
  \A id \in DOMAIN chunkVectors : \E c \in db.doc_chunks : c.id = id

\* C4: once deleteDocument(id) has succeeded, no doc_chunks row has that
\* docId and a queryDocumentChunks filtered on that docId returns nothing.
C4_CascadeDelete ==
  \A id \in deletedDocs :
    /\ DocumentChunkRepository_listByDocument(db, id) = {}
    /\ VectraAdapter_queryDocumentChunks(chunkVectors, id, DefaultTopK) = {}

\* C5: when ingest fails with a validation error (neither path nor content,
\* or chunkOverlap >= chunkSize), the relational store with its full-text
\* index and entity table and the vector collection are as they were
\* before the call.
C5_ValidationBeforeMutation ==
  (IngestFinished /\ lastIngest.error = "ValidationError") => Stores = pre

(***************************************************************************)
(* SlidingWindowTextSplitter.split as a loop, one action per iteration     *)
(* (specification SpecSplit).                                              *)
(***************************************************************************)
AllElseIdle ==
  /\ db = EmptyDb
  /\ txOpen = FALSE
  /\ txSnapshot = EmptyDb
  /\ chunkVectors = <<>>
  /\ ingest = IdleIngest
  /\ lastIngest = NoResult
  /\ prevIngest = NoResult
  /\ pre = NoStores
  /\ deletedDocs = {}
  /\ now = 1
  /\ tasks = <<>>
  /\ txlog = NoTxLog
  /\ seen = <<>>
  /\ ServicesIdle

SplitUnchanged ==
  UNCHANGED <<db, txOpen, txSnapshot, chunkVectors, ingest, lastIngest,
              prevIngest, pre, deletedDocs, now, tasks, txlog, seen, ServiceVars, SystemVars>>

InitSplit ==
  /\ sp \in [pc : {"call"}, length : 0..MaxSplitLen,
             chunkSize : 1..MaxSplitChunk, chunkOverlap : 0..MaxSplitChunk,
             start : {0}, chunks : {<<>>}]
  /\ AllElseIdle

\* if (chunkOverlap >= chunkSize) throw ...; let start = 0
SplitEnter ==
  /\ sp.pc = "call"
  /\ sp' = [sp EXCEPT !.pc = IF SplitThrows(sp.chunkSize, sp.chunkOverlap)
                             THEN "thrown" ELSE "loop"]
  /\ SplitUnchanged

\* one evaluation of the loop condition and, if it holds, of the loop body
SplitIterate ==
  /\ sp.pc = "loop"
  /\ IF sp.start < sp.length
     THEN LET end == SplitEnd(sp.start, sp.chunkSize, sp.length)
          IN sp' = [sp EXCEPT
                      !.chunks = Append(@, [start |-> sp.start, end |-> end]),
                      !.pc = IF end = sp.length THEN "done" ELSE "loop",
                      !.start = IF end = sp.length THEN @
                                ELSE SplitNextStart(end, sp.chunkOverlap)]
     ELSE sp' = [sp EXCEPT !.pc = "done"]
  /\ SplitUnchanged

NextSplit == SplitEnter \/ SplitIterate

\* the loop is running code: it is never suspended
SpecSplit == InitSplit /\ [][NextSplit]_vars /\ WF_vars(NextSplit)

SplitReturned == sp.pc = "done"
SplitStride == sp.chunkSize - sp.chunkOverlap

SplitCoverage ==
  (SplitReturned /\ sp.length > 0) =>
    LET n == Len(sp.chunks)
    IN /\ n > 0
       /\ \A i \in 1..n :
            /\ sp.chunks[i].start = (i - 1) * SplitStride
            /\ 0 < sp.chunks[i].end - sp.chunks[i].start
            /\ sp.chunks[i].end - sp.chunks[i].start <= sp.chunkSize
       /\ sp.chunks[n].end = sp.length
       /\ \A q \in 0..(sp.length - 1) :
            \E i \in 1..n : sp.chunks[i].start <= q /\ q < sp.chunks[i].end
       /\ \A i \in 1..n : sp.chunks[i].start >= 0 /\ sp.chunks[i].end <= sp.length
       /\ sp.chunks = Split(sp.length, sp.chunkSize, sp.chunkOverlap)

SplitExample ==
  (SplitReturned /\ sp.length = 25 /\ sp.chunkSize = 10 /\ sp.chunkOverlap = 3)
    => [i \in 1..Len(sp.chunks) |-> sp.chunks[i].start] = <<0, 7, 14, 21>>

\* C6: for every text of length L > 0 and chunkSize > chunkOverlap >= 0,
\* split terminates; its chunks start at 0, s, 2s, ... with
\* s = chunkSize - chunkOverlap, each has 0 < end - start <= chunkSize, the
\* last one ends at L, the ranges cover [0, L); for 10 / 3 / 25 the starts
\* are 0, 7, 14, 21.
C6_SplitCoverage ==
  /\ [](SplitCoverage /\ SplitExample)
  /\ <>(sp.pc \in {"done", "thrown"})

\* the splitter has returned four overlapping chunks for the 25-character text
C6_Witness ==
  /\ SplitReturned
  /\ sp.length = 25 /\ sp.chunkSize = 10 /\ sp.chunkOverlap = 3
  /\ Len(sp.chunks) = 4

(***************************************************************************)
(* SQLiteClient.transaction and MemoryRepository.create /                  *)
(* replaceReferences, called by concurrent tasks of the event loop         *)
(* (specification SpecTxn).  All tasks share the one connection.           *)
(***************************************************************************)
Tasks == 1..MaxTasks

IdleTask ==
  [op |-> "none", pc |-> "idle", id |-> NoId, refs |-> <<>>,
   failed |-> FALSE, outcome |-> "none"]

RefInputs == [docId : 1..MaxRefDoc, chunkId : {NoId, 1}]

RECURSIVE SeqsUpTo(_, _)
SeqsUpTo(S, n) ==
  IF n = 0 THEN {<<>>}
  ELSE LET shorter == SeqsUpTo(S, n - 1)
       IN shorter \cup {Append(q, x) : q \in {r \in shorter : Len(r) = n - 1}, x \in S}

ReferenceLists == SeqsUpTo(RefInputs, MaxRefs)

\* the body of the transaction callback in replaceReferences: the first
\* failing INSERT throws and ends the loop
RECURSIVE InsertReferences(_, _, _)
InsertReferences(d, memoryId, refs) ==
  IF refs = <<>> THEN [db |-> d, failed |-> FALSE]
  ELSE IF ~InsertReference_ok(d, memoryId, Head(refs))
       THEN [db |-> d, failed |-> TRUE]
       ELSE InsertReferences(InsertReference(d, memoryId, Head(refs)),
                             memoryId, Tail(refs))

\* this.exec("BEGIN IMMEDIATE TRANSACTION;") succeeds only when the
\* connection has no transaction open
BeginOk == ~txOpen

\* bookkeeping: task t ran a statement on the connection
StatementBy(log, t) ==
  IF txOpen /\ log.owner # t
  THEN [log EXCEPT !.foreign = @ \cup {t}, !.foreignInTx = TRUE]
  ELSE log

TxnUnchanged ==
  UNCHANGED <<chunkVectors, ingest, lastIngest, prevIngest, pre, deletedDocs,
              now, sp, seen, ServiceVars, SystemVars>>

NewMemoryRow(id) ==
  [id |-> id, layer |-> "stm", content |-> "c1", summary |-> Null,
   importance |-> 5]

\* MemoryRepository.create(input, references) up to its first suspension:
\* INSERT INTO memories, then replaceReferences -> db.transaction: BEGIN,
\* the callback (DELETE, INSERTs), and the await of the callback's promise
MemoryRepository_create(t, refs) ==
  /\ tasks[t].pc \in {"idle", "done"}
  /\ FreeIds # {}
  /\ LET id == randomUUID
         d1 == InsertMemory(db, NewMemoryRow(id))
         log1 == StatementBy(txlog, t)
         run == InsertReferences(DeleteReferences(d1, id), id, refs)
         task == [IdleTask EXCEPT !.op = "create", !.id = id, !.refs = refs]
     IN IF refs = <<>>
        THEN /\ db' = d1
             /\ txlog' = log1
             /\ tasks' = [tasks EXCEPT ![t] =
                            [task EXCEPT !.pc = "done", !.outcome = "ok"]]
             /\ UNCHANGED <<txOpen, txSnapshot>>
        ELSE IF ~BeginOk
        THEN /\ db' = d1
             /\ txlog' = [log1 EXCEPT !.nestedBegin = TRUE]
             /\ tasks' = [tasks EXCEPT ![t] =
                            [task EXCEPT !.pc = "done",
                                         !.outcome = "NestedTransaction"]]
             /\ UNCHANGED <<txOpen, txSnapshot>>
        ELSE /\ txOpen' = TRUE
             /\ txSnapshot' = d1
             /\ db' = run.db
             /\ txlog' = [log1 EXCEPT !.owner = t, !.foreign = {}]
             /\ tasks' = [tasks EXCEPT ![t] =
                            [task EXCEPT !.pc = "awaitFn",
                                         !.failed = run.failed]]
  /\ TxnUnchanged

\* db.transaction resumes after `await fn(this)`: COMMIT, or ROLLBACK and
\* rethrow
SQLiteClient_transaction_settle(t) ==
  /\ tasks[t].pc = "awaitFn"
  /\ txOpen' = FALSE
  /\ txSnapshot' = EmptyDb
  /\ IF tasks[t].failed
     THEN /\ db' = txSnapshot
          /\ txlog' = [txlog EXCEPT !.owner = 0, !.foreign = {},
                         !.undoneForeign = @ \/ (txlog.foreign # {})]
          /\ tasks' = [tasks EXCEPT ![t].pc = "done",
                                    ![t].outcome = "RefInsertFailed"]
     ELSE /\ db' = db
          /\ txlog' = [txlog EXCEPT !.owner = 0, !.foreign = {}]
          /\ tasks' = [tasks EXCEPT ![t].pc = "reload"]
  /\ TxnUnchanged

\* create resumes after `await this.replaceReferences(...)`:
\* return this.assertFound(this.findById(record.id), ...)
MemoryRepository_create_return(t) ==
  /\ tasks[t].pc = "reload"
  /\ tasks' = [tasks EXCEPT
                 ![t].pc = "done",
                 ![t].outcome =
                    IF MemoryRepository_findById(db, tasks[t].id) # {}
                    THEN "ok" ELSE "NotFound"]
  /\ UNCHANGED <<db, txOpen, txSnapshot, txlog>>
  /\ TxnUnchanged

\* a plain insert by another caller: DocumentRepository.create
DocumentRepository_create_call(t) ==
  /\ tasks[t].pc \in {"idle", "done"}
  /\ FreeIds # {}
  /\ LET id == randomUUID
     IN /\ DocumentRepository_create_ok(db, id, <<"hash", id>>)
        /\ db' = DocumentRepository_create(db, id, <<"hash", id>>)
        /\ tasks' = [tasks EXCEPT ![t] =
                       [IdleTask EXCEPT !.op = "insertDoc", !.id = id,
                                        !.pc = "done", !.outcome = "ok"]]
  /\ txlog' = StatementBy(txlog, t)
  /\ UNCHANGED <<txOpen, txSnapshot>>
  /\ TxnUnchanged

InitTxn ==
  /\ db = EmptyDb
  /\ txOpen = FALSE
  /\ txSnapshot = EmptyDb
  /\ chunkVectors = <<>>
  /\ ingest = IdleIngest
  /\ lastIngest = NoResult
  /\ prevIngest = NoResult
  /\ pre = NoStores
  /\ deletedDocs = {}
  /\ now = 1
  /\ sp = IdleSplit
  /\ tasks = [t \in Tasks |-> IdleTask]
  /\ txlog = NoTxLog
  /\ seen = <<>>
  /\ ServicesIdle

NextTxn ==
  \/ \E t \in Tasks, refs \in ReferenceLists : MemoryRepository_create(t, refs)
  \/ \E t \in Tasks : SQLiteClient_transaction_settle(t)
  \/ \E t \in Tasks : MemoryRepository_create_return(t)
  \/ \E t \in Tasks : DocumentRepository_create_call(t)

SpecTxn == InitTxn /\ [][NextTxn]_vars

CreateFinished(t) == tasks[t].op = "create" /\ tasks[t].pc = "done"

\* the memory_refs rows of task t's memory are exactly the requested ones
AllReferencesExist(t) ==
  LET rows == MemoryRepository_listReferences(db, tasks[t].id)
  IN /\ Cardinality(rows) = Len(tasks[t].refs)
     /\ \A i \in 1..Len(tasks[t].refs) :
          \E r \in rows : /\ r.doc_id = tasks[t].refs[i].docId
                          /\ r.chunk_id = tasks[t].refs[i].chunkId

NothingExists(t) ==
  /\ MemoryRepository_findById(db, tasks[t].id) = {}
  /\ MemoryRepository_listReferences(db, tasks[t].id) = {}

\* C7: MemoryRepository.create with references is atomic: when inserting a
\* reference fails, neither the memory row nor any reference row is
\* committed; after the call either the memory and all of its references
\* exist or none of them do.
C7_AtomicCreate ==
  \A t \in Tasks :
    CreateFinished(t) =>
      /\ tasks[t].outcome = "RefInsertFailed" => NothingExists(t)
      /\ tasks[t].outcome \in {"ok", "RefInsertFailed", "NotFound"} =>
           \/ /\ MemoryRepository_findById(db, tasks[t].id) # {}
              /\ AllReferencesExist(t)
           \/ NothingExists(t)

\* C8: writes on one SQLiteClient are serialized: no statement of one
\* mutation runs inside another caller's open transaction, no mutation fails
\* because a transaction is already open, and no rollback undoes a
\* statement of another caller.
C8_WritesSerialized ==
  /\ ~txlog.foreignInTx
  /\ ~txlog.nestedBegin
  /\ ~txlog.undoneForeign

(***************************************************************************)
(* Entity upserts: KnowledgeGraphRepository.upsertEntity and the           *)
(* DefaultKnowledgeGraphService methods built on it (specification         *)
(* SpecKg).  seen records, per entity row, the least firstSeen and the     *)
(* greatest lastSeen handed to the store for it.                           *)
(***************************************************************************)
TagSets == {{}, {"t1"}}

\* the updates of a KnowledgeUpdateEntityRequest: each field is optional
EntityUpdates(types, tagSets) ==
  [name : Names] \cup [type : types] \cup [tags : tagSets]
  \cup [name : Names, type : types] \cup [name : Names, tags : tagSets]
  \cup [type : types, tags : tagSets]
  \cup [name : Names, type : types, tags : tagSets]

\* SpecKg varies names and timestamps; it calls with one type and one tag list
KgTypes == {"person"}
KgTagSets == {{}}

KgUnchanged ==
  UNCHANGED <<txOpen, txSnapshot, chunkVectors, ingest, lastIngest, prevIngest,
              pre, deletedDocs, sp, tasks, txlog, ServiceVars, SystemVars>>

\* seen after firstSeen / lastSeen were supplied for row id: the least
\* firstSeen and the greatest lastSeen supplied for it so far
Observe(s, id, firstSeen, lastSeen) ==
  [i \in DOMAIN s \cup {id} |->
     IF i # id THEN s[i]
     ELSE IF id \in DOMAIN s
          THEN [first |-> Min2(s[id].first, firstSeen),
                last |-> Max2(s[id].last, lastSeen)]
          ELSE [first |-> firstSeen, last |-> lastSeen]]

\* the id of the row an upsert of `name` lands on: the existing row's, else
\* the fresh one
UpsertTarget(d, name, fresh) ==
  IF KnowledgeGraphRepository_findByName(d, name) = {} THEN fresh
  ELSE (CHOOSE e \in KnowledgeGraphRepository_findByName(d, name) : TRUE).id

\* repository.upsertEntity({name, type, firstSeen, lastSeen, tags})
upsertEntity(name, type, firstSeen, lastSeen, tags) ==
  /\ FreeIds # {}
  /\ db' = KnowledgeGraphRepository_upsertEntity(db,
             NewEntityRecord(randomUUID, name, type, firstSeen, lastSeen, tags))
  /\ seen' = Observe(seen, UpsertTarget(db, name, randomUUID),
                     firstSeen, lastSeen)
  /\ UNCHANGED now
  /\ KgUnchanged

\* service.createEntity({name, type, tags}): firstSeen and lastSeen default
\* to Date.now()
createEntity(name, type, tags) ==
  /\ FreeIds # {}
  /\ db' = KnowledgeGraphRepository_upsertEntity(db,
             NewEntityRecord(randomUUID, name, type, now, now, tags))
  /\ seen' = Observe(seen, UpsertTarget(db, name, randomUUID), now, now)
  /\ UNCHANGED now
  /\ KgUnchanged

\* the loop of service.ensureEntities: upsertEntity with tags [], then
\* updateEntityActivity(stored.id, Date.now(), 1)
RECURSIVE EnsureLoop(_, _, _, _, _)
EnsureLoop(st, names, type, free, t) ==
  IF names = {} THEN st
  ELSE LET n == CHOOSE x \in names : TRUE
           fresh == SetMin(free)
           d1 == KnowledgeGraphRepository_upsertEntity(st.db,
                    NewEntityRecord(fresh, n, type, t, t, {}))
           stored == CHOOSE e \in KnowledgeGraphRepository_findByName(d1, n) : TRUE
           d2 == KnowledgeGraphRepository_updateEntityActivity(d1, stored.id, t, 1)
       IN EnsureLoop(
            [db |-> d2,
             seen |-> Observe(st.seen, UpsertTarget(st.db, n, fresh), t, t)],
            names \ {n}, type, free \ {fresh}, t)

ensureEntities(names, type) ==
  /\ names # {}
  /\ Cardinality(FreeIds) >= Cardinality(names)
  /\ LET st == EnsureLoop([db |-> db, seen |-> seen], names, type, FreeIds, now)
     IN /\ db' = st.db
        /\ seen' = st.seen
  /\ UNCHANGED now
  /\ KgUnchanged

\* service.updateEntity({id, name?, type?, tags?}) for an existing entity;
\* a rename onto another row's name fails the UNIQUE constraint and throws
updateEntity(id, updates) ==
  /\ KnowledgeGraphRepository_findById(db, id) # {}
  /\ IF KnowledgeGraphRepository_updateEntity_ok(db, id, updates)
     THEN db' = KnowledgeGraphRepository_updateEntity(db, id, updates)
     ELSE UNCHANGED db
  /\ UNCHANGED <<seen, now>>
  /\ KgUnchanged

\* time passes
Tick ==
  /\ now < MaxTime
  /\ now' = now + 1
  /\ UNCHANGED <<db, seen>>
  /\ KgUnchanged

InitKg ==
  /\ AllElseIdle
  /\ sp = IdleSplit

NextKg ==
  \/ \E name \in Names, type \in KgTypes, firstSeen \in Times,
        lastSeen \in Times, tags \in KgTagSets :
        upsertEntity(name, type, firstSeen, lastSeen, tags)
  \/ \E name \in Names, type \in KgTypes, tags \in KgTagSets :
        createEntity(name, type, tags)
  \/ \E names \in SUBSET Names, type \in KgTypes : ensureEntities(names, type)
  \/ \E id \in Ids, updates \in EntityUpdates(KgTypes, KgTagSets) :
        updateEntity(id, updates)
  \/ Tick

SpecKg == InitKg /\ [][NextKg]_vars

OneRowPerName ==
  \A e1 \in db.entities : \A e2 \in db.entities : e1.name = e2.name => e1 = e2

SeenMinMax ==
  \A e \in db.entities :
    /\ e.id \in DOMAIN seen
    /\ e.first_seen = seen[e.id].first
    /\ e.last_seen = seen[e.id].last

\* a name that has a row before and after a step has it under the same id
NameKeepsId ==
  \A e \in db.entities : \A e2 \in db'.entities :
     e2.name = e.name => e2.id = e.id

MaxRows == 2

Layers == {"stm", "ltm"}
MemoryContents == {"c1", "c2"}
Summaries == {Null, "s1"}
ChunkContents == {"c1", "c2"}

\* the patch of MemoryRepository.update: one field, or the three mirrored
\* ones; importance is held in tenths
MemoryPatches ==
  [content : MemoryContents] \cup [summary : Summaries] \cup [layer : Layers]
  \cup [importance : {5, 7}]
  \cup [content : MemoryContents, summary : Summaries, layer : Layers]

\* the patch of DocumentChunkRepository.update
ChunkPatches ==
  [content : ChunkContents] \cup [position_end : {1, 2}]
  \cup [content : ChunkContents, position_end : {1, 2}]

MemoriesOnly == db.documents = {} /\ db.doc_chunks = {} /\ db.entities = {}
ChunksOnly == db.memories = {} /\ db.entities = {}
EntitiesOnly == db.memories = {} /\ db.documents = {} /\ db.doc_chunks = {}

FtsUnchanged ==
  UNCHANGED <<txOpen, txSnapshot, chunkVectors, ingest, lastIngest, prevIngest,
              pre, deletedDocs, now, sp, tasks, txlog, ServiceVars, SystemVars>>

\* MemoryRepository.create(input) without references
createMemory(layer, content, summary) ==
  /\ MemoriesOnly
  /\ Cardinality(db.memories) < MaxRows
  /\ FreeIds # {}
  /\ db' = InsertMemory(db, [id |-> randomUUID, layer |-> layer,
                             content |-> content, summary |-> summary,
                             importance |-> 5])
  /\ UNCHANGED seen
  /\ FtsUnchanged

\* MemoryRepository.update(id, patch)
updateMemory(id, patch) ==
  /\ MemoryRepository_findById(db, id) # {}
  /\ db' = UpdateMemory(db, id, patch)
  /\ UNCHANGED seen
  /\ FtsUnchanged

\* MemoryRepository.delete(id)
deleteMemory(id) ==
  /\ MemoryRepository_findById(db, id) # {}
  /\ db' = MemoryRepository_delete(db, id)
  /\ UNCHANGED seen
  /\ FtsUnchanged

\* DocumentRepository.create(input)
createDocument ==
  /\ ChunksOnly
  /\ Cardinality(db.documents) < MaxRows
  /\ FreeIds # {}
  /\ db' = DocumentRepository_create(db, randomUUID, <<"hash", randomUUID>>)
  /\ UNCHANGED seen
  /\ FtsUnchanged

\* DocumentChunkRepository.insert(input)
insertChunk(docId, content) ==
  /\ DocumentRepository_findById(db, docId) # {}
  /\ Cardinality(db.doc_chunks) < MaxRows
  /\ FreeIds # {}
  /\ db' = DocumentChunkRepository_insert(db,
             [id |-> randomUUID, doc_id |-> docId, position_start |-> 0,
              position_end |-> 1, content |-> content])
  /\ UNCHANGED seen
  /\ FtsUnchanged

\* DocumentChunkRepository.update(id, patch)
updateChunk(id, patch) ==
  /\ \E c \in db.doc_chunks : c.id = id
  /\ db' = DocumentChunkRepository_update(db, id, patch)
  /\ UNCHANGED seen
  /\ FtsUnchanged

\* DocumentChunkRepository.delete(id)
removeChunk(id) ==
  /\ \E c \in db.doc_chunks : c.id = id
  /\ db' = DocumentChunkRepository_delete(db, id)
  /\ UNCHANGED seen
  /\ FtsUnchanged

\* DocumentChunkRepository.deleteByDocument(docId)
removeChunksOfDocument(docId) ==
  /\ DocumentChunkRepository_listByDocument(db, docId) # {}
  /\ db' = DocumentChunkRepository_deleteByDocument(db, docId)
  /\ UNCHANGED seen
  /\ FtsUnchanged

\* DocumentRepository.delete(id): the chunks go by ON DELETE CASCADE
removeDocument(id) ==
  /\ DocumentRepository_findById(db, id) # {}
  /\ db' = DocumentRepository_delete(db, id)
  /\ UNCHANGED seen
  /\ FtsUnchanged

\* the outcome a service call leaves in lastCall
Outcome(op, status, error, id) ==
  [op |-> op, status |-> status, error |-> error, id |-> id]

\* service.deleteEntity({id}) for an existing entity
deleteEntity(id) ==
  /\ KnowledgeGraphRepository_findById(db, id) # {}
  /\ db' = KnowledgeGraphRepository_deleteEntity(db, id)
  /\ seen' = [i \in DOMAIN seen \ {id} |-> seen[i]]
  /\ lastCall' = Outcome("deleteEntity", "ok", "none", id)
  /\ UNCHANGED <<txOpen, txSnapshot, chunkVectors, ingest, lastIngest,
                 prevIngest, pre, deletedDocs, now, sp, tasks, txlog>>
  /\ UNCHANGED <<walk, search, memoryVectors, deletedMemories,
                 SystemVars>>

InitFts ==
  /\ AllElseIdle
  /\ sp = IdleSplit

NextFts ==
  \/ \E layer \in Layers, content \in MemoryContents, summary \in Summaries :
        createMemory(layer, content, summary)
  \/ \E id \in Ids, patch \in MemoryPatches : updateMemory(id, patch)
  \/ \E id \in Ids : deleteMemory(id)
  \/ createDocument
  \/ \E docId \in Ids, content \in ChunkContents : insertChunk(docId, content)
  \/ \E id \in Ids, patch \in ChunkPatches : updateChunk(id, patch)
  \/ \E id \in Ids : removeChunk(id)
  \/ \E docId \in Ids : removeChunksOfDocument(docId)
  \/ \E id \in Ids : removeDocument(id)
  \/ \E name \in Names, type \in EntityTypes, tags \in TagSets :
        EntitiesOnly /\ createEntity(name, type, tags)
  \/ \E names \in SUBSET Names, type \in EntityTypes :
        EntitiesOnly /\ ensureEntities(names, type)
  \/ \E id \in Ids, updates \in EntityUpdates(EntityTypes, TagSets) :
        updateEntity(id, updates)
  \/ \E id \in Ids : deleteEntity(id)

SpecFts == InitFts /\ [][NextFts]_vars

\* the shadow rows the base tables call for: one per base row, NULL summary
\* mirrored as ''
MirrorOfMemories ==
  SetToBag({[memory_id |-> m.id, content |-> m.content,
             summary |-> Coalesce(m.summary), layer |-> m.layer] :
            m \in db.memories})

MirrorOfChunks ==
  SetToBag({[chunk_id |-> c.id, doc_id |-> c.doc_id, content |-> c.content] :
            c \in db.doc_chunks})

MirrorOfEntities ==
  SetToBag({[entity_id |-> e.id, name |-> e.name, type |-> e.type,
             tags |-> e.tags] : e \in db.entities})

\* C9: in every reachable state each full-text shadow table holds exactly
\* one row per base-table row and none for a missing one, and the mirrored
\* fields (memory content / summary / layer, chunk content / doc_id, entity
\* name / type / tags) carry the base row's current values.
C9_FtsNeverStale ==
  /\ db.fts_memories = MirrorOfMemories
  /\ db.fts_doc_chunks = MirrorOfChunks
  /\ db.fts_entities = MirrorOfEntities

\* a document with a chunk is gone; the document created after them has a
\* chunk that was inserted under a reused id and then updated
C9_Witness ==
  /\ \E r \in db.documents : r.id = 3 /\ db.documents = {r}
  /\ \E c \in db.doc_chunks :
       /\ db.doc_chunks = {c}
       /\ c.id = 1 /\ c.doc_id = 3
       /\ c.content = "c2" /\ c.position_end = 2
  /\ BagCardinality(db.fts_doc_chunks) = 1

(***************************************************************************)
(* Observation counts: what ensureEntities leaves in entities.count.       *)
(***************************************************************************)
\* a step of ensureEntities(names, type) leaves every row whose name it
\* observed again with a strictly greater count
ReobservedCountGrows(names, type) ==
  ensureEntities(names, type) =>
    \A e \in db.entities :
      e.name \in names =>
        \E e2 \in db'.entities : e2.name = e.name /\ e2.count > e.count

\* C11: each time an already-known entity name is observed again through
\* ensureEntities, the stored count becomes strictly greater than it was
\* before that observation.
C11_ReobserveIncrements ==
  [][\A names \in SUBSET Names, type \in KgTypes :
        ReobservedCountGrows(names, type)]_vars

(***************************************************************************)
(* Relations: DefaultKnowledgeGraphService.createRelation / deleteRelation *)
(* next to the entity calls (specification SpecGraph).  Edge ids are       *)
(* random UUIDs of their own table.                                        *)
(***************************************************************************)
\* rows of kg_edges
MaxEdges == 3

EdgeIds == 1..MaxEdges
Relations == {"knows"}

GraphUnchanged ==
  UNCHANGED <<txOpen, txSnapshot, chunkVectors, ingest, lastIngest, prevIngest,
              pre, deletedDocs, now, sp, tasks, txlog, seen,
              walk, search, memoryVectors, deletedMemories,
                 SystemVars>>

FreeEdgeIds == EdgeIds \ {r.id : r \in db.kg_edges}

\* service.createRelation({src, dst, relation}): both endpoints are looked
\* up before the edge is written
createRelation(src, dst, relation) ==
  /\ IF KnowledgeGraphRepository_findById(db, src) = {}
     THEN /\ lastCall' = Outcome("createRelation", "error",
                                 "Source entity not found", NoId)
          /\ UNCHANGED db
     ELSE IF KnowledgeGraphRepository_findById(db, dst) = {}
     THEN /\ lastCall' = Outcome("createRelation", "error",
                                 "Destination entity not found", NoId)
          /\ UNCHANGED db
     ELSE /\ FreeEdgeIds # {}
          /\ LET id == SetMin(FreeEdgeIds)
             IN /\ db' = KnowledgeGraphRepository_upsertEdge(db,
                           [id |-> id, src |-> src, dst |-> dst,
                            relation |-> relation])
                /\ lastCall' = Outcome("createRelation", "ok", "none", id)
  /\ GraphUnchanged

\* service.deleteRelation({id})
deleteRelation(id) ==
  /\ IF KnowledgeGraphRepository_findEdgeById(db, id) = {}
     THEN /\ lastCall' = Outcome("deleteRelation", "error",
                                 "Relation not found", NoId)
          /\ UNCHANGED db
     ELSE /\ db' = KnowledgeGraphRepository_deleteEdge(db, id)
          /\ lastCall' = Outcome("deleteRelation", "ok", "none", id)
  /\ GraphUnchanged

InitGraph ==
  /\ AllElseIdle
  /\ sp = IdleSplit

NextGraph ==
  \/ \E name \in Names, type \in KgTypes, tags \in KgTagSets :
        createEntity(name, type, tags)
  \/ \E id \in Ids, updates \in EntityUpdates(EntityTypes, KgTagSets) :
        updateEntity(id, updates)
  \/ \E id \in Ids : deleteEntity(id)
  \/ \E src \in Ids, dst \in Ids, relation \in Relations :
        createRelation(src, dst, relation)
  \/ \E id \in EdgeIds : deleteRelation(id)

SpecGraph == InitGraph /\ [][NextGraph]_vars

NoDanglingEdge ==
  \A r \in db.kg_edges :
    /\ KnowledgeGraphRepository_findById(db, r.src) # {}
    /\ KnowledgeGraphRepository_findById(db, r.dst) # {}

\* a createRelation that has just failed wrote nothing
FailedCreateWritesNothing ==
  (lastCall' # lastCall /\ lastCall'.op = "createRelation"
     /\ lastCall'.status = "error") => db' = db

\* an entity that a step removes takes every edge touching it along
DeleteTakesEdges ==
  \A e \in db.entities :
    KnowledgeGraphRepository_findById(db', e.id) = {} =>
      KnowledgeGraphRepository_listEdgesForEntity(db', e.id) = {}

\* C12: in every reachable state both src and dst of every kg_edges row
\* reference existing entities; createRelation fails without inserting
\* anything when an endpoint does not exist, and deleteEntity(e) removes
\* every edge whose src or dst is e.
C12_EdgesNeverDangle ==
  /\ []NoDanglingEdge
  /\ [][FailedCreateWritesNothing /\ DeleteTakesEdges]_vars

\* deleteEntity has just removed an entity together with the first edge,
\* which touched it; the self-loop created after that edge is still there
C12_Witness ==
  /\ lastCall.op = "deleteEntity"
  /\ Cardinality(db.entities) = 1
  /\ \E r \in db.kg_edges :
       /\ db.kg_edges = {r}
       /\ r.id = 2 /\ r.src = r.dst /\ r.src # lastCall.id

(***************************************************************************)
(* Graph traversals: DefaultKnowledgeGraphService.readGraph and findPath.  *)
(* Both run over a stored graph of three entities and up to MaxEdges       *)
(* edges; a call is made without relationType.  listEdgesForEntity orders  *)
(* by created_at, which is Date.now() in milliseconds: rows written in the *)
(* same millisecond tie, so a traversal may meet the edges of an entity in *)
(* any order.                                                              *)
(***************************************************************************)
\* the depth / maxDepth a caller passes
MaxDepth == 3

WalkNames == <<"Alice", "Bob", "Carol">>
WalkIds == 1..Len(WalkNames)
\* an id no entity has
MissingId == Len(WalkNames) + 1
\* depth / maxDepth left out of the request
NoDepth == -1
\* the parse of a depth / maxDepth outside the schema's range throws
DepthRejected == -2

EdgePairs == WalkIds \X WalkIds
PairCode(p) == p[1] * (Len(WalkNames) + 1) + p[2]

\* the (src, dst) pairs of the stored edges, in order of creation; lists that
\* differ only in that order are represented by the sorted one
EdgeLists ==
  {s \in SeqsUpTo(EdgePairs, MaxEdges) :
     \A i \in 1..(Len(s) - 1) : PairCode(s[i]) <= PairCode(s[i + 1])}

RECURSIVE WithEntities(_, _)
WithEntities(d, i) ==
  IF i > Len(WalkNames) THEN d
  ELSE WithEntities(
         KnowledgeGraphRepository_upsertEntity(d,
           NewEntityRecord(i, WalkNames[i], "person", 1, 1, {})),
         i + 1)

RECURSIVE WithEdges(_, _, _)
WithEdges(d, pairs, i) ==
  IF i > Len(pairs) THEN d
  ELSE WithEdges(
         KnowledgeGraphRepository_upsertEdge(d,
           [id |-> i, src |-> pairs[i][1], dst |-> pairs[i][2],
            relation |-> "knows"]),
         pairs, i + 1)

\* the store after upsertEntity for each name and upsertEdge for each pair
GraphDb(pairs) == WithEdges(WithEntities(EmptyDb, 1), pairs, 1)

\* the orders in which a query may return a set of tied rows
Orderings(S) ==
  {s \in [1..Cardinality(S) -> S] :
     \A i \in DOMAIN s : \A j \in DOMAIN s : s[i] = s[j] => i = j}

\* z.number().int().min(lo).max(hi).optional().default(dflt)
ParseDepth(depth, lo, hi, dflt) ==
  IF depth = NoDepth THEN dflt
  ELSE IF depth < lo \/ depth > hi THEN DepthRejected
  ELSE depth

\* edge.src === entityId ? edge.dst : edge.src
OtherEnd(edge, entityId) == IF edge.src = entityId THEN edge.dst ELSE edge.src

WalkUnchanged ==
  UNCHANGED <<db, txOpen, txSnapshot, chunkVectors, ingest, lastIngest,
              prevIngest, pre, deletedDocs, now, sp, tasks, txlog, seen,
              search, memoryVectors, deletedMemories, lastCall,
                 SystemVars>>

\* everything but db and walk as after construction
WalkElseIdle ==
  /\ txOpen = FALSE
  /\ txSnapshot = EmptyDb
  /\ chunkVectors = <<>>
  /\ ingest = IdleIngest
  /\ lastIngest = NoResult
  /\ prevIngest = NoResult
  /\ pre = NoStores
  /\ deletedDocs = {}
  /\ now = 1
  /\ sp = IdleSplit
  /\ tasks = <<>>
  /\ txlog = NoTxLog
  /\ seen = <<>>
  /\ search = IdleSearch
  /\ memoryVectors = <<>>
  /\ deletedMemories = {}
  /\ lastCall = NoCall
  /\ SystemIdle

(***************************************************************************)
(* readGraph (specification SpecReadGraph).                                *)
(***************************************************************************)
ReadGraphMinDepth == 1
ReadGraphMaxDepth == 5
ReadGraphDefaultDepth == 1

\* a visited set that never grows
MarkVisited_Forget(visited, id) == visited

\* visited.add(neighborId)
MarkVisited(visited, id) == visited \cup {id}

\* the inner loop of readGraph: for (const edge of edges) ...
RECURSIVE ReadGraphEdges(_, _, _, _)
ReadGraphEdges(w, d, edges, entityId) ==
  IF edges = <<>> THEN w
  ELSE LET neighborId == OtherEnd(Head(edges), entityId)
           w1 == IF neighborId \in w.visited THEN w
                 ELSE LET v == [w EXCEPT !.visited = MarkVisited(@, neighborId)]
                      IN IF KnowledgeGraphRepository_findById(d, neighborId) = {}
                         THEN v
                         ELSE [v EXCEPT
                                 !.neighbors = Append(@, neighborId),
                                 !.nextLevel =
                                    IF w.level < w.depth - 1
                                    THEN Append(@, neighborId) ELSE @]
       IN ReadGraphEdges(w1, d, Tail(edges), entityId)

\* parsed.relationType ? getEdgesByEntityAndType(entityId, relationType)
\*                      : listEdgesForEntity(entityId)
ReadGraphEdgesOf(d, entityId, relationType) ==
  IF relationType # NoRelationType
  THEN KnowledgeGraphRepository_getEdgesByEntityAndType(d, entityId,
                                                       relationType)
  ELSE KnowledgeGraphRepository_listEdgesForEntity(d, entityId)

ReadGraphCall(entityId, depth) ==
  [pc |-> "call", op |-> "readGraph", entityId |-> entityId, depth |-> depth,
   relationType |-> NoRelationType,
   relations |-> {}, visited |-> {}, neighbors |-> <<>>,
   currentLevel |-> <<>>, nextLevel |-> <<>>, index |-> 0, level |-> 0,
   status |-> "none", error |-> "none"]

\* parse, findById, the relations query and the BFS locals
ReadGraphEnter ==
  /\ walk.pc = "call" /\ walk.op = "readGraph"
  /\ LET parsed == ParseDepth(walk.depth, ReadGraphMinDepth,
                              ReadGraphMaxDepth, ReadGraphDefaultDepth)
     IN IF parsed = DepthRejected
        THEN walk' = [walk EXCEPT !.pc = "done", !.status = "error",
                                  !.error = "ZodError"]
        ELSE IF KnowledgeGraphRepository_findById(db, walk.entityId) = {}
        THEN walk' = [walk EXCEPT !.pc = "done", !.status = "error",
                                  !.error = "Entity not found",
                                  !.depth = parsed]
        ELSE walk' = [walk EXCEPT
                        !.pc = "while", !.depth = parsed,
                        !.relations = ReadGraphEdgesOf(db, walk.entityId,
                                                       walk.relationType),
                        !.visited = {walk.entityId},
                        !.currentLevel = <<walk.entityId>>]
  /\ WalkUnchanged

\* while (depth < parsed.depth && currentLevel.length > 0)
ReadGraphWhile ==
  /\ walk.pc = "while" /\ walk.op = "readGraph"
  /\ IF walk.level < walk.depth /\ walk.currentLevel # <<>>
     THEN walk' = [walk EXCEPT !.pc = "for", !.nextLevel = <<>>, !.index = 1]
     ELSE walk' = [walk EXCEPT !.pc = "done", !.status = "ok"]
  /\ WalkUnchanged

\* one round of for (const entityId of currentLevel); after the last one,
\* currentLevel = nextLevel; depth++
ReadGraphFor ==
  /\ walk.pc = "for" /\ walk.op = "readGraph"
  /\ IF walk.index > Len(walk.currentLevel)
     THEN walk' = [walk EXCEPT !.pc = "while", !.currentLevel = walk.nextLevel,
                               !.level = @ + 1]
     ELSE LET entityId == walk.currentLevel[walk.index]
          IN \E edges \in Orderings(
                  ReadGraphEdgesOf(db, entityId, walk.relationType)) :
               walk' = [ReadGraphEdges(walk, db, edges, entityId)
                          EXCEPT !.index = @ + 1]
  /\ WalkUnchanged

InitReadGraph ==
  /\ \E pairs \in EdgeLists : db = GraphDb(pairs)
  /\ \E entityId \in WalkIds \cup {MissingId},
        depth \in (0..MaxDepth) \cup {NoDepth} :
        walk = ReadGraphCall(entityId, depth)
  /\ WalkElseIdle

NextReadGraph == ReadGraphEnter \/ ReadGraphWhile \/ ReadGraphFor

SpecReadGraph ==
  InitReadGraph /\ [][NextReadGraph]_vars /\ WF_vars(NextReadGraph)

ReadGraphReturned == walk.pc = "done" /\ walk.status = "ok"

\* no entity twice among the root and the neighbors
EachEntityOnce ==
  /\ \A i \in DOMAIN walk.neighbors : \A j \in DOMAIN walk.neighbors :
       walk.neighbors[i] = walk.neighbors[j] => i = j
  /\ walk.entityId \notin Range(walk.neighbors)

\* the stored graph is the cycle 1 -> 2 -> 3 -> 1
CycleGraph ==
  {<<r.src, r.dst>> : r \in db.kg_edges} = {<<1, 2>>, <<2, 3>>, <<3, 1>>}
  /\ Cardinality(db.kg_edges) = 3

\* C13: readGraph returns on every stored graph, cycles and self-loops
\* included, and no entity appears more than once among the root and the
\* neighbors list; on the cycle A->B->C->A with depth 3, readGraph(A) returns
\* B and C once each.
C13_ReadGraphTerminates ==
  /\ <>(walk.pc = "done")
  /\ [](ReadGraphReturned => EachEntityOnce)
  /\ []((CycleGraph /\ walk.entityId = 1 /\ walk.depth = 3
          /\ walk.pc = "done")
        => (ReadGraphReturned /\ Len(walk.neighbors) = 2
            /\ Range(walk.neighbors) = {2, 3}))

\* readGraph(A) with depth 3 has returned on the cycle
C13_Witness ==
  /\ CycleGraph
  /\ ReadGraphReturned
  /\ walk.entityId = 1 /\ walk.depth = 3
  /\ walk.level = 2
  /\ Len(walk.neighbors) = 2

(***************************************************************************)
(* findPath (specification SpecFindPath).                                  *)
(***************************************************************************)
FindPathMinDepth == 1
FindPathMaxDepth == 10
FindPathDefaultDepth == 5

\* a cut-off that lets a path of maxDepth edges grow by one more
FindPathCutOff_OneMore(path, maxDepth) == Len(path) > maxDepth

\* path.length >= parsed.maxDepth
FindPathCutOff(path, maxDepth) == Len(path) >= maxDepth

\* the inner loop of findPath: for (const edge of edges) ...
RECURSIVE FindPathEdges(_, _, _, _)
FindPathEdges(w, edges, entityId, path) ==
  IF edges = <<>> THEN w
  ELSE LET nextEntityId == OtherEnd(Head(edges), entityId)
           w1 == IF nextEntityId \in w.visited THEN w
                 ELSE [w EXCEPT
                         !.visited = @ \cup {nextEntityId},
                         !.queue = Append(@, [entityId |-> nextEntityId,
                                              path |-> Append(path, Head(edges))])]
       IN FindPathEdges(w1, Tail(edges), entityId, path)

FindPathCall(src, dst, maxDepth) ==
  [pc |-> "call", op |-> "findPath", src |-> src, dst |-> dst,
   maxDepth |-> maxDepth, queue |-> <<>>, visited |-> {},
   status |-> "none", error |-> "none", result |-> <<>>]

\* parse, the two findById lookups, and the BFS locals
FindPathEnter ==
  /\ walk.pc = "call" /\ walk.op = "findPath"
  /\ LET parsed == ParseDepth(walk.maxDepth, FindPathMinDepth,
                              FindPathMaxDepth, FindPathDefaultDepth)
     IN IF parsed = DepthRejected
        THEN walk' = [walk EXCEPT !.pc = "done", !.status = "error",
                                  !.error = "ZodError"]
        ELSE IF KnowledgeGraphRepository_findById(db, walk.src) = {}
        THEN walk' = [walk EXCEPT !.pc = "done", !.status = "error",
                                  !.error = "Source entity not found",
                                  !.maxDepth = parsed]
        ELSE IF KnowledgeGraphRepository_findById(db, walk.dst) = {}
        THEN walk' = [walk EXCEPT !.pc = "done", !.status = "error",
                                  !.error = "Destination entity not found",
                                  !.maxDepth = parsed]
        ELSE walk' = [walk EXCEPT
                        !.pc = "while", !.maxDepth = parsed,
                        !.queue = <<[entityId |-> walk.src, path |-> <<>>]>>,
                        !.visited = {walk.src}]
  /\ WalkUnchanged

\* one round of while (queue.length > 0), or the return [] after it
FindPathWhile ==
  /\ walk.pc = "while" /\ walk.op = "findPath"
  /\ IF walk.queue = <<>>
     THEN walk' = [walk EXCEPT !.pc = "done", !.status = "ok", !.result = <<>>]
     ELSE LET entityId == Head(walk.queue).entityId
              path == Head(walk.queue).path
              rest == [walk EXCEPT !.queue = Tail(@)]
          IN IF entityId = walk.dst
             THEN walk' = [rest EXCEPT !.pc = "done", !.status = "ok",
                                       !.result = path]
             ELSE IF FindPathCutOff(path, walk.maxDepth)
             THEN walk' = rest
             ELSE \E edges \in Orderings(
                       KnowledgeGraphRepository_listEdgesForEntity(db, entityId)) :
                    walk' = FindPathEdges(rest, edges, entityId, path)
  /\ WalkUnchanged

InitFindPath ==
  /\ \E pairs \in EdgeLists : db = GraphDb(pairs)
  /\ \E src \in WalkIds \cup {MissingId}, dst \in WalkIds \cup {MissingId},
        maxDepth \in (0..MaxDepth) \cup {NoDepth} :
        walk = FindPathCall(src, dst, maxDepth)
  /\ WalkElseIdle

NextFindPath == FindPathEnter \/ FindPathWhile

SpecFindPath == InitFindPath /\ [][NextFindPath]_vars

\* the entities within k hops of S, every edge taken in both directions
RECURSIVE Ball(_, _)
Ball(S, k) ==
  IF k = 0 THEN S
  ELSE LET B == Ball(S, k - 1)
       IN B \cup {r.dst : r \in {x \in db.kg_edges : x.src \in B}}
            \cup {r.src : r \in {x \in db.kg_edges : x.dst \in B}}

\* the least number of hops from src to dst, given that maxDepth suffice
HopDistance(src, dst, maxDepth) ==
  SetMin({k \in 0..maxDepth : dst \in Ball({src}, k)})

\* where a list of stored edges leads from `from` when each edge is left by
\* its other end; NoId when an edge does not touch the entity reached
RECURSIVE ChainEnd(_, _)
ChainEnd(path, from) ==
  IF path = <<>> THEN from
  ELSE IF Head(path) \notin db.kg_edges THEN NoId
  ELSE IF Head(path).src # from /\ Head(path).dst # from THEN NoId
  ELSE ChainEnd(Tail(path), OtherEnd(Head(path), from))

FindPathReturned ==
  /\ walk.pc = "done" /\ walk.status = "ok"
  /\ walk.src # walk.dst

ShortestPath ==
  IF walk.dst \in Ball({walk.src}, walk.maxDepth)
  THEN /\ ChainEnd(walk.result, walk.src) = walk.dst
       /\ Len(walk.result) = HopDistance(walk.src, walk.dst, walk.maxDepth)
  ELSE walk.result = <<>>

\* the stored edges join 1 - 2 and 2 - 3 and nothing joins 1 and 3
ChainGraph ==
  /\ \E r \in db.kg_edges : {r.src, r.dst} = {1, 2}
  /\ \E r \in db.kg_edges : {r.src, r.dst} = {2, 3}
  /\ \A r \in db.kg_edges : {r.src, r.dst} # {1, 3}

\* C14: for existing entities src # dst, with every edge undirected: if a
\* path of at most maxDepth edges connects them, findPath returns a connected
\* chain of edges from src to dst of the least possible length (length 2 for
\* A to C over A-B and B-C with the default maxDepth 5), and otherwise it
\* returns the empty list.
C14_FindPathShortest ==
  /\ FindPathReturned => ShortestPath
  /\ (ChainGraph /\ walk.pc = "done" /\ walk.src = 1 /\ walk.dst = 3
        /\ walk.maxDepth = FindPathDefaultDepth)
       => (walk.status = "ok" /\ Len(walk.result) = 2)

\* findPath(A, C) has returned two edges: one stored as A -> B, then one
\* stored as C -> B and taken against its direction
C14_Witness ==
  /\ FindPathReturned
  /\ walk.src = 1 /\ walk.dst = 3
  /\ Len(walk.result) = 2
  /\ walk.result[1].dst = 2 /\ walk.result[2].src = 3

\* C15: findPath with maxDepth = 0 between two distinct existing entities
\* returns an empty list, not an error.
C15_ZeroDepthEmpty ==
  (/\ walk.pc = "done" /\ walk.op = "findPath"
   /\ walk.maxDepth = 0
   /\ walk.src # walk.dst
   /\ KnowledgeGraphRepository_findById(db, walk.src) # {}
   /\ KnowledgeGraphRepository_findById(db, walk.dst) # {})
  => (walk.status = "ok" /\ walk.result = <<>>)

(***************************************************************************)
(* DefaultSearchService.searchMemories (specification SpecSearch).  A call *)
(* starts with the rows its two queries returned: the Vectra matches, best *)
(* first, and the fts_memories rows with their bm25() value, ORDER BY      *)
(* score ASC.  bm25() of SQLite's FTS5 is negative for every matching row. *)
(* Scores are held in tenths, combined scores in hundredths.               *)
(***************************************************************************)
\* the topK a caller passes
MaxTopK == 3

\* the memories stored when the call is made
SearchIds == {1, 2, 3}
\* cosine similarities, in tenths
VectorScores == {-5, 0, 5}
\* bm25() values
Bm25Values == {-2, -1}
ScoreScale == 10
\* a score the record does not carry
NoScore == 1000

\* the lists of rows a query may return: at most n rows, no id twice
Hits(ids, scores, n) ==
  {h \in SeqsUpTo([id : ids, score : scores], n) :
     \A i \in DOMAIN h : \A j \in DOMAIN h : h[i].id = h[j].id => i = j}

\* Vectra returns the best match first
VectorHits(ids, scores, n) ==
  {h \in Hits(ids, scores, n) :
     \A i \in 1..(Len(h) - 1) : h[i].score >= h[i + 1].score}

\* ... ORDER BY score ASC LIMIT ?
FtsRows(ids, scores, n) ==
  {h \in Hits(ids, scores, n) :
     \A i \in 1..(Len(h) - 1) : h[i].score <= h[i + 1].score}

\* score: row.score !== 0 ? 1 / row.score : 1
TextScore(raw) == IF raw # 0 THEN ScoreScale \div raw ELSE ScoreScale

\* x ?? 0
OrZero(x) == IF x = NoScore THEN 0 ELSE x

\* the position of id in the list of records, 0 when it is not there
IndexOf(list, id) ==
  IF \E i \in DOMAIN list : list[i].id = id
  THEN CHOOSE i \in DOMAIN list : list[i].id = id
  ELSE 0

\* for (const match of vectorResults) merged.set(...)
RECURSIVE MergeVector(_, _)
MergeVector(merged, vectorResults) ==
  IF vectorResults = <<>> THEN merged
  ELSE LET match == Head(vectorResults)
           entry == [id |-> match.id, vectorScore |-> match.score,
                     textScore |-> NoScore]
           at == IndexOf(merged, match.id)
       IN MergeVector(
            IF at = 0 THEN Append(merged, entry)
            ELSE [merged EXCEPT ![at] = entry],
            Tail(vectorResults))

\* for (const match of textResults) ...: a Map keeps insertion order
RECURSIVE MergeText(_, _)
MergeText(merged, textResults) ==
  IF textResults = <<>> THEN merged
  ELSE LET match == Head(textResults)
           at == IndexOf(merged, match.id)
       IN MergeText(
            IF at # 0
            THEN [merged EXCEPT ![at].textScore =
                    Max2(OrZero(merged[at].textScore), match.score)]
            ELSE Append(merged, [id |-> match.id, vectorScore |-> NoScore,
                                 textScore |-> match.score]),
            Tail(textResults))

\* #combineScores, in hundredths
combineScores(result) ==
  LET vector == OrZero(result.vectorScore)
      text == OrZero(result.textScore)
  IN IF vector # 0 /\ text # 0
     THEN 7 * vector + 3 * text
     ELSE ScoreScale * (IF vector # 0 THEN vector ELSE text)

\* an insertion that puts r in front of the entries it ties with
InsertSorted_BeforeTies(sorted, r) ==
  LET keep == {i \in DOMAIN sorted :
                 combineScores(sorted[i]) > combineScores(r)}
      n == Cardinality(keep)
  IN SubSeq(sorted, 1, n) \o <<r>> \o SubSeq(sorted, n + 1, Len(sorted))

\* Array.prototype.sort is stable: r goes behind every entry that the
\* comparator does not put after it
InsertSorted(sorted, r) ==
  LET keep == {i \in DOMAIN sorted :
                 combineScores(sorted[i]) >= combineScores(r)}
      n == Cardinality(keep)
  IN SubSeq(sorted, 1, n) \o <<r>> \o SubSeq(sorted, n + 1, Len(sorted))

\* .sort((a, b) => combineScores(b) - combineScores(a))
RECURSIVE SortByScore(_, _)
SortByScore(sorted, list) ==
  IF list = <<>> THEN sorted
  ELSE SortByScore(InsertSorted(sorted, Head(list)), Tail(list))

\* #resolveSource
resolveSource(result) ==
  IF OrZero(result.vectorScore) # 0 THEN "vector"
  ELSE IF OrZero(result.textScore) # 0 THEN "text"
  ELSE "graph"

\* the loop of searchMemories over the first topK entries
RECURSIVE Enrich(_, _)
Enrich(d, limited) ==
  IF limited = <<>> THEN <<>>
  ELSE LET result == Head(limited)
       IN (IF MemoryRepository_findById(d, result.id) = {} THEN <<>>
           ELSE <<[id |-> result.id, score |-> combineScores(result),
                   vectorScore |-> result.vectorScore,
                   textScore |-> result.textScore,
                   source |-> resolveSource(result)]>>)
          \o Enrich(d, Tail(limited))

\* deleted: the ids whose deleteMemory had completed when the call was made
SearchCall(topK, vectorResults, ftsRows, deleted) ==
  [pc |-> "queried", topK |-> topK, vectorResults |-> vectorResults,
   ftsRows |-> ftsRows, merged |-> <<>>, results |-> <<>>,
   deleted |-> deleted]

SearchUnchanged ==
  UNCHANGED <<db, txOpen, txSnapshot, chunkVectors, ingest, lastIngest,
              prevIngest, pre, deletedDocs, now, sp, tasks, txlog, seen,
              walk, memoryVectors, deletedMemories, lastCall,
                 SystemVars>>

\* #collectScores from the rows of #searchFts on: merge and sort
Collected(call) ==
  LET textResults == [i \in DOMAIN call.ftsRows |->
                        [id |-> call.ftsRows[i].id,
                         score |-> TextScore(call.ftsRows[i].score)]]
      merged == MergeText(MergeVector(<<>>, call.vectorResults), textResults)
  IN [call EXCEPT !.pc = "collected", !.merged = SortByScore(<<>>, merged)]

\* #collectScores after its await
SearchCollect ==
  /\ search.pc = "queried"
  /\ search' = Collected(search)
  /\ SearchUnchanged

\* searchMemories after its await: slice(0, topK) and hydrate
SearchReturn ==
  /\ search.pc = "collected"
  /\ search' = [search EXCEPT
                  !.pc = "done",
                  !.results = Enrich(db, SubSeq(search.merged, 1,
                                       Min2(search.topK, Len(search.merged))))]
  /\ SearchUnchanged

\* the store after MemoryRepository.create for each id
RECURSIVE StoredMemories(_, _)
StoredMemories(d, ids) ==
  IF ids = {} THEN d
  ELSE LET id == CHOOSE x \in ids : TRUE
       IN StoredMemories(InsertMemory(d, NewMemoryRow(id)), ids \ {id})

\* the calls: the vector index may still name a memory whose row is gone,
\* the full-text query joins memories
InitSearch ==
  /\ \E present \in {SearchIds, SearchIds \ {SetMax(SearchIds)}} :
       /\ db = StoredMemories(EmptyDb, present)
       /\ \E topK \in 1..MaxTopK :
            \E vectorResults \in VectorHits(SearchIds, VectorScores, topK),
               ftsRows \in FtsRows(present, Bm25Values, topK) :
              search = SearchCall(topK, vectorResults, ftsRows, {})
  /\ txOpen = FALSE
  /\ txSnapshot = EmptyDb
  /\ chunkVectors = <<>>
  /\ ingest = IdleIngest
  /\ lastIngest = NoResult
  /\ prevIngest = NoResult
  /\ pre = NoStores
  /\ deletedDocs = {}
  /\ now = 1
  /\ sp = IdleSplit
  /\ tasks = <<>>
  /\ txlog = NoTxLog
  /\ seen = <<>>
  /\ walk = IdleWalk
  /\ memoryVectors = <<>>
  /\ deletedMemories = {}
  /\ lastCall = NoCall
  /\ SystemIdle

NextSearch == SearchCollect \/ SearchReturn

SpecSearch == InitSearch /\ [][NextSearch]_vars

SearchReturned == search.pc = "done"

\* the score each query gave to id, NoScore when the query did not match it
VectorScoreOf(id) ==
  IF IndexOf(search.vectorResults, id) = 0 THEN NoScore
  ELSE search.vectorResults[IndexOf(search.vectorResults, id)].score

TextScoreOf(id) ==
  IF IndexOf(search.ftsRows, id) = 0 THEN NoScore
  ELSE TextScore(search.ftsRows[IndexOf(search.ftsRows, id)].score)

\* 0.7 * vectorScore + 0.3 * textScore when both queries matched id, the
\* single score otherwise; in hundredths
FusedScore(id) ==
  IF VectorScoreOf(id) # NoScore /\ TextScoreOf(id) # NoScore
  THEN 7 * VectorScoreOf(id) + 3 * TextScoreOf(id)
  ELSE IF VectorScoreOf(id) # NoScore THEN ScoreScale * VectorScoreOf(id)
  ELSE ScoreScale * TextScoreOf(id)

MergedIds ==
  {search.vectorResults[i].id : i \in DOMAIN search.vectorResults}
  \cup {search.ftsRows[i].id : i \in DOMAIN search.ftsRows}

ResultIds == {search.results[i].id : i \in DOMAIN search.results}

\* C16: for every memory id returned by searchMemories, score equals
\* 0.7*vectorScore + 0.3*textScore when the id was matched by both queries
\* and the single available score when matched by one; the list is in
\* non-increasing order of that score, has at most topK entries, and these
\* are the topK highest-scoring ids of the merged set.
C16_HybridFusion ==
  SearchReturned =>
    /\ \A i \in DOMAIN search.results :
         search.results[i].score = FusedScore(search.results[i].id)
    /\ \A i \in 1..(Len(search.results) - 1) :
         FusedScore(search.results[i].id) >= FusedScore(search.results[i + 1].id)
    /\ Len(search.results) <= search.topK
    /\ \A id \in ResultIds : \A other \in MergedIds \ ResultIds :
         FusedScore(id) >= FusedScore(other)

\* the place of id in the merge step's order: the vector query's ids in
\* their order, then the ids only the full-text query found, in theirs
MergeRank(id) ==
  IF IndexOf(search.vectorResults, id) # 0
  THEN IndexOf(search.vectorResults, id)
  ELSE Len(search.vectorResults) + IndexOf(search.ftsRows, id)

\* C17: whenever two results of searchMemories have equal combined scores,
\* they appear in the order of the merge step: ids the vector query found
\* before ids only the full-text query found, each group in its own order.
C17_TieBreakMergeOrder ==
  SearchReturned =>
    \A i \in DOMAIN search.results : \A j \in DOMAIN search.results :
      (i < j /\ search.results[i].score = search.results[j].score)
        => MergeRank(search.results[i].id) < MergeRank(search.results[j].id)

\* a vector-only match and a text-only match have come back with the same
\* score, behind a better vector match
C17_Witness ==
  /\ SearchReturned
  /\ Len(search.results) = 3
  /\ search.results[1].score > search.results[2].score
  /\ search.results[2].score = search.results[3].score
  /\ search.results[2].source = "vector"
  /\ search.results[3].source = "text"

(***************************************************************************)
(* DefaultMemoryService: addMemory, updateMemory and deleteMemory, called  *)
(* by concurrent tasks of the event loop, next to searchMemories and       *)
(* MemoryRepository.replaceReferences (specification SpecMemory).  One     *)
(* action per synchronous segment between awaits; the embedding provider   *)
(* and the Vectra index answer every call.  The store starts with one      *)
(* document, which references can name.                                    *)
(***************************************************************************)
\* MemoryLayerSchema
MemoryLayers == {"stm", "ltm", "episodic", "semantic", "documentary"}
\* the layer strings a caller passes: a member of the enum and another one
LayerInputs == {"stm", "bogus"}
\* importance left out of the input
NoImportance == 100
\* the importances a caller passes, in tenths: none, and one above 1.0
ImportanceInputs == {NoImportance, 15}
DefaultImportance == 5

\* the concurrent callers of the service
Callers == {1, 2}
\* the id calls name: that of the first memory, missing until it is added
MemoryIds == {2}

\* the reference lists a caller of replaceReferences passes
ReferenceChoices == {<<>>, <<[docId |-> 1, chunkId |-> NoId]>>}

\* the patches of updateMemory
ServicePatches ==
  [layer : {"bogus"}] \cup [importance : {15}] \cup [content : {"c2"}]

IdleCall ==
  [op |-> "none", pc |-> "idle", id |-> NoId, layer |-> "none",
   importance |-> NoImportance, content |-> "none", found |-> FALSE]

\* the outcome of a memory-service call (the id is not kept)
MemoryOutcome(call, status, error) ==
  Outcome(call.op, status, error, NoId)

\* embeddings.embed([text])[0]: the vector is a function of the text
embed(text) == <<"embedding", text>>

\* memoryIndex.upsertItem({id, metadata: {memoryId, layer, importance},
\* vector})
VectraAdapter_upsertMemoryVector(mv, input) ==
  [id \in DOMAIN mv \cup {input.memoryId} |->
     IF id = input.memoryId
     THEN [memoryId |-> input.memoryId, layer |-> input.layer,
           importance |-> input.importance, vector |-> input.vector]
     ELSE mv[id]]

\* memoryIndex.deleteItem(memoryId)
VectraAdapter_deleteMemoryVector(mv, memoryId) ==
  [id \in DOMAIN mv \ {memoryId} |-> mv[id]]

\* MemoryRecordSchema.parse(record) accepts the record
MemoryRecordSchema_ok(layer) == layer \in MemoryLayers

MemoryUnchanged ==
  UNCHANGED <<txOpen, txSnapshot, chunkVectors, ingest, lastIngest, prevIngest,
              pre, deletedDocs, now, sp, txlog, seen, walk, SystemVars>>

\* the call of task t settles; found tells whether the row the call names
\* existed when the call was made
Settle(t, status, error) ==
  /\ lastCall' = MemoryOutcome(tasks[t], status, error)
  /\ tasks' = [tasks EXCEPT ![t] = IdleCall]

\* addMemory(input) up to await embeddings.embed
addMemoryCall(t, layer, importance) ==
  /\ tasks[t].pc = "idle"
  /\ tasks' = [tasks EXCEPT ![t] =
                 [IdleCall EXCEPT
                    !.op = "addMemory", !.pc = "embed", !.layer = layer,
                    !.content = "c1",
                    !.importance = IF importance = NoImportance
                                   THEN DefaultImportance ELSE importance]]
  /\ UNCHANGED <<db, search, memoryVectors, deletedMemories, lastCall>>
  /\ MemoryUnchanged

\* embed has settled: memoryRepository.create(record, []) and the call of
\* vectra.upsertMemoryVector
addMemoryEmbedded(t) ==
  /\ tasks[t].pc = "embed" /\ tasks[t].op = "addMemory"
  /\ FreeIds \cap MemoryIds # {}
  /\ LET row == [id |-> randomUUID, layer |-> tasks[t].layer,
                 content |-> tasks[t].content, summary |-> Null,
                 importance |-> tasks[t].importance]
     IN IF InsertMemory_ok(db, row)
        THEN /\ db' = InsertMemory(db, row)
             /\ tasks' = [tasks EXCEPT ![t].pc = "upsert", ![t].id = row.id]
             /\ UNCHANGED lastCall
        ELSE Settle(t, "error", "SQLITE_CONSTRAINT") /\ UNCHANGED db
  /\ UNCHANGED <<search, memoryVectors, deletedMemories>>
  /\ MemoryUnchanged

\* updateMemory(id, patch) up to its first await: memoryRepository.update,
\* whose assertFound throws when the row is missing
updateMemoryCall(t, id, patch) ==
  /\ tasks[t].pc = "idle"
  /\ LET call == [IdleCall EXCEPT
                    !.op = "updateMemory", !.id = id,
                    !.found = MemoryRepository_findById(db, id) # {}]
         updated == CHOOSE m \in MemoryRepository_findById(
                                   UpdateMemory(db, id, patch), id) : TRUE
     IN IF ~call.found
        THEN /\ lastCall' = MemoryOutcome(call, "error", "NotFoundError")
             /\ UNCHANGED <<db, tasks>>
        ELSE IF ~UpdateMemory_ok(db, id, patch)
        THEN /\ lastCall' = MemoryOutcome(call, "error", "SQLITE_CONSTRAINT")
             /\ UNCHANGED <<db, tasks>>
        ELSE /\ db' = UpdateMemory(db, id, patch)
             /\ IF "content" \in DOMAIN patch /\ patch.content # ""
                THEN /\ tasks' = [tasks EXCEPT ![t] =
                                    [call EXCEPT !.pc = "embed",
                                                 !.layer = updated.layer,
                                                 !.importance = updated.importance,
                                                 !.content = patch.content]]
                     /\ UNCHANGED lastCall
                ELSE /\ lastCall' =
                          IF MemoryRecordSchema_ok(updated.layer)
                          THEN MemoryOutcome(call, "ok", "none")
                          ELSE MemoryOutcome(call, "error", "ZodError")
                     /\ UNCHANGED tasks
  /\ UNCHANGED <<search, memoryVectors, deletedMemories>>
  /\ MemoryUnchanged

\* embed has settled in updateMemory: the call of vectra.upsertMemoryVector
updateMemoryEmbedded(t) ==
  /\ tasks[t].pc = "embed" /\ tasks[t].op = "updateMemory"
  /\ tasks' = [tasks EXCEPT ![t].pc = "upsert"]
  /\ UNCHANGED <<db, search, memoryVectors, deletedMemories, lastCall>>
  /\ MemoryUnchanged

\* upsertMemoryVector has settled: MemoryRecordSchema.parse and the return
memoryVectorUpserted(t) ==
  /\ tasks[t].pc = "upsert"
  /\ memoryVectors' = VectraAdapter_upsertMemoryVector(memoryVectors,
                        [memoryId |-> tasks[t].id,
                         vector |-> embed(tasks[t].content),
                         layer |-> tasks[t].layer,
                         importance |-> tasks[t].importance])
  /\ IF MemoryRecordSchema_ok(tasks[t].layer)
     THEN Settle(t, "ok", "none")
     ELSE Settle(t, "error", "ZodError")
  /\ UNCHANGED <<db, search, deletedMemories>>
  /\ MemoryUnchanged

\* deleteMemory(id) up to await vectra.deleteMemoryVector
deleteMemoryCall(t, id) ==
  /\ tasks[t].pc = "idle"
  /\ db' = MemoryRepository_delete(db, id)
  /\ tasks' = [tasks EXCEPT ![t] =
                 [IdleCall EXCEPT
                    !.op = "deleteMemory", !.pc = "unvector", !.id = id,
                    !.found = MemoryRepository_findById(db, id) # {}]]
  /\ UNCHANGED <<search, memoryVectors, deletedMemories, lastCall>>
  /\ MemoryUnchanged

\* deleteMemoryVector has settled: deleteMemory returns.  deletedMemories
\* keeps the ids of the memories a returned deleteMemory found
deleteMemoryVectorDeleted(t) ==
  /\ tasks[t].pc = "unvector"
  /\ memoryVectors' = VectraAdapter_deleteMemoryVector(memoryVectors,
                                                        tasks[t].id)
  /\ deletedMemories' = IF tasks[t].found
                        THEN deletedMemories \cup {tasks[t].id}
                        ELSE deletedMemories
  /\ Settle(t, "ok", "none")
  /\ UNCHANGED <<db, search>>
  /\ MemoryUnchanged

\* MemoryRepository.replaceReferences(memoryId, refs), run to its COMMIT or
\* ROLLBACK with no other caller in between
replaceReferences(memoryId, refs) ==
  /\ LET done == InsertReferences(DeleteReferences(db, memoryId),
                                  memoryId, refs)
     IN db' = IF done.failed THEN db ELSE done.db
  /\ UNCHANGED <<tasks, search, memoryVectors, deletedMemories, lastCall>>
  /\ MemoryUnchanged

\* the rows of hits that name every id of ids, or the first n of them
AllHits(hits, ids, n) ==
  {h \in hits : Len(h) = Min2(n, Cardinality(ids))}

\* searchMemories(request) up to the await in #collectScores, for a query
\* that every stored memory matches: the entries of the memory index, in any
\* order of equal scores
searchQuery(topK) ==
  /\ search.pc \in {"idle", "done"}
  /\ LET indexed == DOMAIN memoryVectors
     IN \E vectorResults \in
             AllHits(VectorHits(indexed, {5}, topK), indexed, topK) :
          search' = SearchCall(topK, vectorResults, <<>>, deletedMemories)
  /\ UNCHANGED <<db, tasks, memoryVectors, deletedMemories, lastCall>>
  /\ MemoryUnchanged

\* #collectScores after its await: the fts_memories rows joined with
\* memories, then merge and sort
searchFts ==
  /\ search.pc = "queried"
  /\ LET joined == {r.memory_id : r \in BagToSet(db.fts_memories)}
                     \cap {m.id : m \in db.memories}
     IN \E ftsRows \in AllHits(FtsRows(joined, {-1}, search.topK), joined,
                               search.topK) :
          search' = Collected([search EXCEPT !.ftsRows = ftsRows])
  /\ UNCHANGED <<db, tasks, memoryVectors, deletedMemories, lastCall>>
  /\ MemoryUnchanged

InitMemory ==
  /\ db = DocumentRepository_create(EmptyDb, 1, <<"hash", 1>>)
  /\ txOpen = FALSE
  /\ txSnapshot = EmptyDb
  /\ chunkVectors = <<>>
  /\ ingest = IdleIngest
  /\ lastIngest = NoResult
  /\ prevIngest = NoResult
  /\ pre = NoStores
  /\ deletedDocs = {}
  /\ now = 1
  /\ sp = IdleSplit
  /\ tasks = [t \in Callers |-> IdleCall]
  /\ txlog = NoTxLog
  /\ seen = <<>>
  /\ ServicesIdle

NextMemory ==
  \/ \E t \in Callers, layer \in LayerInputs, importance \in ImportanceInputs :
        addMemoryCall(t, layer, importance)
  \/ \E t \in Callers : addMemoryEmbedded(t)
  \/ \E t \in Callers, id \in MemoryIds, patch \in ServicePatches :
        updateMemoryCall(t, id, patch)
  \/ \E t \in Callers : updateMemoryEmbedded(t)
  \/ \E t \in Callers : memoryVectorUpserted(t)
  \/ \E t \in Callers, id \in MemoryIds : deleteMemoryCall(t, id)
  \/ \E t \in Callers : deleteMemoryVectorDeleted(t)
  \/ \E memoryId \in MemoryIds, refs \in ReferenceChoices :
        replaceReferences(memoryId, refs)
  \/ \E topK \in {MaxTopK} : searchQuery(topK)
  \/ searchFts
  \/ SearchReturn

SpecMemory == InitMemory /\ [][NextMemory]_vars

\* updateMemory or deleteMemory of caller t settles in this step
Settles(t, op) ==
  \/ tasks[t].op = op /\ tasks[t].pc # "idle" /\ tasks'[t].pc = "idle"
  \/ /\ op = "updateMemory"
     /\ tasks[t].pc = "idle" /\ tasks'[t].pc = "idle"
     /\ lastCall' # lastCall /\ lastCall'.op = op

\* C18: an updateMemory or a deleteMemory that names a memory id with no row
\* fails with a NotFound error and leaves the store and the memory index as
\* they were.
C18_MissingTargetFails ==
  [][\A t \in Callers :
       /\ (Settles(t, "deleteMemory") /\ ~tasks[t].found) =>
             /\ lastCall'.status = "error"
             /\ lastCall'.error = "NotFoundError"
       /\ (Settles(t, "updateMemory") /\ tasks[t].pc = "idle"
           /\ \A id \in MemoryIds : MemoryRepository_findById(db, id) = {}) =>
             /\ lastCall'.status = "error"
             /\ lastCall'.error = "NotFoundError"
             /\ db' = db /\ memoryVectors' = memoryVectors]_vars

\* nothing of memory id is left in the store or in the memory index
MemoryGone(id) ==
  /\ MemoryRepository_findById(db, id) = {}
  /\ MemoryRepository_listReferences(db, id) = {}
  /\ \A r \in BagToSet(db.fts_memories) : r.memory_id # id
  /\ id \notin DOMAIN memoryVectors

\* C19: once deleteMemory(id) has completed for a stored memory, its row, its
\* memory_refs rows, its full-text row and its entry in the memory index are
\* gone, and no searchMemories call made after that returns the id.
C19_DeletedStaysGone ==
  /\ \A id \in deletedMemories : MemoryGone(id)
  /\ search.pc = "done" =>
       \A i \in DOMAIN search.results :
          search.results[i].id \notin search.deleted

\* C20: every memories row has an importance within [0, 1] and one of the
\* five layers, and every entry of the memory index has one of the five
\* layers.
C20_MemoryFieldsValid ==
  /\ \A m \in db.memories :
        /\ m.importance >= 0 /\ m.importance <= 10
        /\ m.layer \in MemoryLayers
  /\ \A id \in DOMAIN memoryVectors : memoryVectors[id].layer \in MemoryLayers

(***************************************************************************)
(* Memory references and DefaultDocumentService.deleteDocument             *)
(* (specification SpecRefs).  The store starts with two documents and one  *)
(* memory; references are written with MemoryRepository.replaceReferences. *)
(***************************************************************************)
RefDocIds == {1, 2}
RefMemoryId == 3

\* deleteDocument({id}): throws for a missing document, else deletes the
\* chunk rows and the document row.  pre keeps the stores of the moment of
\* the call
deleteDocumentCall(id) ==
  /\ pre' = Stores
  /\ IF DocumentRepository_findById(db, id) = {}
     THEN /\ lastCall' = Outcome("deleteDocument", "error", "not found", id)
          /\ UNCHANGED <<db, deletedDocs>>
     ELSE /\ db' = DocumentRepository_delete(
                     DocumentChunkRepository_deleteByDocument(db, id), id)
          /\ deletedDocs' = deletedDocs \cup {id}
          /\ lastCall' = Outcome("deleteDocument", "ok", "none", id)
  /\ UNCHANGED <<txOpen, txSnapshot, chunkVectors, ingest, lastIngest,
                 prevIngest, now, sp, tasks, txlog, seen, walk, search,
                 memoryVectors, deletedMemories,
                 SystemVars>>

InitRefs ==
  /\ db = StoredMemories(
            DocumentRepository_create(
              DocumentRepository_create(EmptyDb, 1, <<"hash", 1>>),
              2, <<"hash", 2>>),
            {RefMemoryId})
  /\ txOpen = FALSE
  /\ txSnapshot = EmptyDb
  /\ chunkVectors = <<>>
  /\ ingest = IdleIngest
  /\ lastIngest = NoResult
  /\ prevIngest = NoResult
  /\ pre = NoStores
  /\ deletedDocs = {}
  /\ now = 1
  /\ sp = IdleSplit
  /\ tasks = <<>>
  /\ txlog = NoTxLog
  /\ seen = <<>>
  /\ ServicesIdle

NextRefs ==
  \/ \E refs \in SeqsUpTo([docId : RefDocIds, chunkId : {NoId}], MaxRefs) :
        replaceReferences(RefMemoryId, refs)
  \/ \E patch \in [layer : Layers] : updateMemory(RefMemoryId, patch)
  \/ \E id \in RefDocIds : deleteDocumentCall(id)

SpecRefs == InitRefs /\ [][NextRefs]_vars

\* C21: deleteDocument of an existing document never fails, whatever
\* references name it; the step that deletes it leaves every memory row and
\* the full-text rows of memories as they were, and takes from each memory's
\* listReferences exactly the references to that document.
C21_WeakReferences ==
  /\ [](lastCall.op = "deleteDocument" /\ lastCall.status = "error"
          => DocumentRepository_findById(pre.db, lastCall.id) = {})
  /\ [][\A id \in deletedDocs' \ deletedDocs :
          /\ DocumentRepository_findById(db', id) = {}
          /\ db'.memories = db.memories
          /\ db'.fts_memories = db.fts_memories
          /\ \A m \in db.memories :
                MemoryRepository_listReferences(db', m.id) =
                  {r \in MemoryRepository_listReferences(db, m.id) :
                     r.doc_id # id}]_vars

\* a document was deleted while the memory held a reference to it and one to
\* the other document, which it still holds
C21_Witness ==
  /\ lastCall.op = "deleteDocument" /\ lastCall.status = "ok"
  /\ \E r \in MemoryRepository_listReferences(pre.db, RefMemoryId) :
        r.doc_id = lastCall.id
  /\ \E r \in MemoryRepository_listReferences(db, RefMemoryId) :
        r.doc_id # lastCall.id
  /\ db.memories = pre.db.memories

(***************************************************************************)
(* VectraAdapter.initialize under concurrent callers (specification        *)
(* SpecVectra).  Every adapter method starts with await this.initialize(). *)
(* LocalIndex comes from the vectra package: isIndexCreated() tells        *)
(* whether the index file exists, createIndex() throws "Index already      *)
(* exists" when isIndexCreated() answers true and writes the index file    *)
(* otherwise, with an await between the two.                               *)
(***************************************************************************)
AdapterOps == {"healthCheck", "stats"}

VectraUnchanged ==
  UNCHANGED <<db, txOpen, txSnapshot, chunkVectors, ingest, lastIngest,
              prevIngest, pre, deletedDocs, now, sp, tasks, txlog, seen,
              ServiceVars, sched>>

\* initialize() goes on after index: the document index follows the memory
\* index, this.#initialized = true follows the document index
AfterIndex(v, c) ==
  IF v.calls[c].index = "memory"
  THEN [v EXCEPT !.calls[c].pc = "check", !.calls[c].index = "document"]
  ELSE [v EXCEPT !.initialized = TRUE, !.calls[c].pc = "body",
                 !.calls[c].index = "none"]

\* healthCheck() or stats() is called: initialize() returns at once when
\* #initialized is set, else awaits ensureDir
adapterCall(c, op) ==
  /\ vectra.calls[c].pc \in {"idle", "done", "failed"}
  /\ vectra' = [vectra EXCEPT !.calls[c] =
                  [IdleAdapterCall EXCEPT
                     !.op = op,
                     !.pc = IF vectra.initialized THEN "body" ELSE "dirs"]]
  /\ VectraUnchanged

\* both ensureDir calls have settled: new LocalIndex(...) twice and the call
\* of memoryIndex.isIndexCreated()
initializeDirs(c) ==
  /\ vectra.calls[c].pc = "dirs"
  /\ vectra' = [vectra EXCEPT !.calls[c].pc = "check",
                              !.calls[c].index = "memory"]
  /\ VectraUnchanged

\* isIndexCreated() has settled: createIndex is called when it answered false
indexChecked(c) ==
  /\ vectra.calls[c].pc = "check"
  /\ vectra' = IF vectra.disk[vectra.calls[c].index]
               THEN AfterIndex(vectra, c)
               ELSE [vectra EXCEPT !.calls[c].pc = "create"]
  /\ VectraUnchanged

\* inside createIndex, isIndexCreated() has settled
createIndexChecked(c) ==
  /\ vectra.calls[c].pc = "create"
  /\ vectra' = IF vectra.disk[vectra.calls[c].index]
               THEN [vectra EXCEPT !.calls[c].pc = "failed",
                                   !.calls[c].error = "Index already exists"]
               ELSE [vectra EXCEPT !.calls[c].pc = "write"]
  /\ VectraUnchanged

\* inside createIndex, the index file has been written
createIndexWritten(c) ==
  /\ vectra.calls[c].pc = "write"
  /\ LET index == vectra.calls[c].index
     IN vectra' = AfterIndex(
                    [vectra EXCEPT !.disk[index] = TRUE,
                                   !.created[index] = @ + 1], c)
  /\ VectraUnchanged

\* the body of healthCheck() or stats() after initialize(): healthCheck
\* answers ok when both isIndexCreated() calls answer true
adapterReturn(c) ==
  /\ vectra.calls[c].pc = "body"
  /\ vectra' = [vectra EXCEPT
                  !.calls[c].pc = "done",
                  !.calls[c].ok = \A i \in IndexNames : vectra.disk[i]]
  /\ VectraUnchanged

InitVectra ==
  /\ db = EmptyDb
  /\ txOpen = FALSE
  /\ txSnapshot = EmptyDb
  /\ chunkVectors = <<>>
  /\ ingest = IdleIngest
  /\ lastIngest = NoResult
  /\ prevIngest = NoResult
  /\ pre = NoStores
  /\ deletedDocs = {}
  /\ now = 1
  /\ sp = IdleSplit
  /\ tasks = <<>>
  /\ txlog = NoTxLog
  /\ seen = <<>>
  /\ walk = IdleWalk
  /\ search = IdleSearch
  /\ memoryVectors = <<>>
  /\ deletedMemories = {}
  /\ lastCall = NoCall
  /\ sched = IdleSched
  /\ \E disk \in [IndexNames -> BOOLEAN] : vectra = FreshVectra(disk)

NextVectra ==
  \/ \E c \in VectraCallers, op \in AdapterOps : adapterCall(c, op)
  \/ \E c \in VectraCallers : initializeDirs(c)
  \/ \E c \in VectraCallers : indexChecked(c)
  \/ \E c \in VectraCallers : createIndexChecked(c)
  \/ \E c \in VectraCallers : createIndexWritten(c)
  \/ \E c \in VectraCallers : adapterReturn(c)

SpecVectra == InitVectra /\ [][NextVectra]_vars

\* C22: on a fresh VectraAdapter, whatever the interleaving of its callers,
\* each index is created at most once, no call fails because the index
\* already exists, and a healthCheck that returns reports both indexes.
C22_InitializeOnce ==
  /\ \A i \in IndexNames : vectra.created[i] <= 1
  /\ \A c \in VectraCallers :
        /\ vectra.calls[c].error # "Index already exists"
        /\ (vectra.calls[c].pc = "done" /\ vectra.calls[c].op = "healthCheck")
             => vectra.calls[c].ok

(***************************************************************************)
(* JobScheduler: register, runJobNow, cron ticks and #execute              *)
(* (specification SpecJobs).  sched.jobs is the #jobs map, sched.table the *)
(* jobs table, sched.runs the executions asked for so far: each keeps the  *)
(* markRun calls it made in marked.  JobRepository.markRun is one upsert   *)
(* no constraint can refuse.                                               *)
(***************************************************************************)
MaxRuns == 3
JobNames == {"job.a", "job.b"}
\* what definition.task() does: return a promise that resolves or rejects,
\* or throw before returning
TaskBehaviours == {"resolves", "rejects", "throws"}
\* error.message of the task's error
TaskError == "Bang!"

\* INSERT INTO jobs ... ON CONFLICT(name) DO UPDATE SET last_run, status,
\* metadata
JobRepository_markRun(table, name, status, error) ==
  [n \in DOMAIN table \cup {name} |->
     IF n = name THEN [status |-> status, error |-> error] ELSE table[n]]

\* the run makes the call markRun(name, status, {durationMs, error})
Marked(run, status, error) ==
  [run EXCEPT !.pc = "done",
              !.marked = Append(@, [name |-> run.name, status |-> status,
                                    error |-> error])]

\* a catch block that records nothing
executeCatch_Swallow(run) == [run EXCEPT !.pc = "done"]

\* catch (error) { markRun(definition.name, "failed", {error: message}) }
executeCatch(run) == Marked(run, "failed", TaskError)

\* after await Promise.resolve(definition.task()):
\* markRun(definition.name, "succeeded", {durationMs})
executeTry(run) == Marked(run, "succeeded", "none")

\* the jobs table after the markRun calls of run
TableAfter(table, run) ==
  IF run.marked = <<>> THEN table
  ELSE LET m == run.marked[Len(run.marked)]
       IN JobRepository_markRun(table, m.name, m.status, m.error)

JobsUnchanged ==
  UNCHANGED <<db, txOpen, txSnapshot, chunkVectors, ingest, lastIngest,
              prevIngest, pre, deletedDocs, now, sp, tasks, txlog, seen,
              ServiceVars, vectra>>

\* register(definition): throws for a name already registered
register(name) ==
  /\ name \notin sched.jobs
  /\ sched' = [sched EXCEPT
                 !.jobs = @ \cup {name},
                 !.table = JobRepository_markRun(@, name, "idle", "none")]
  /\ JobsUnchanged

\* #execute(definition) up to its await: a task that throws is caught at once
execute(name, via, behaviour) ==
  LET run == [name |-> name, via |-> via, registered |-> TRUE,
              behaviour |-> behaviour, pc |-> "task", marked |-> <<>>]
      started == IF behaviour = "throws" THEN executeCatch(run) ELSE run
  IN sched' = [sched EXCEPT !.runs = Append(@, started),
                            !.table = TableAfter(@, started)]

\* runJobNow(name): rejects for a name that is not registered
runJobNow(name, behaviour) ==
  /\ Len(sched.runs) < MaxRuns
  /\ IF name \in sched.jobs
     THEN execute(name, "runJobNow", behaviour)
     ELSE sched' = [sched EXCEPT !.runs = Append(@,
                      [name |-> name, via |-> "runJobNow",
                       registered |-> FALSE, behaviour |-> "none",
                       pc |-> "rejected", marked |-> <<>>])]
  /\ JobsUnchanged

\* the cron task of a registered job fires: () => this.#execute(definition)
cronTick(name, behaviour) ==
  /\ Len(sched.runs) < MaxRuns
  /\ name \in sched.jobs
  /\ execute(name, "cron", behaviour)
  /\ JobsUnchanged

\* the task's promise has settled: the rest of try, or catch; runJobNow
\* resolves
taskSettled(r) ==
  /\ r \in DOMAIN sched.runs
  /\ sched.runs[r].pc = "task"
  /\ LET run == IF sched.runs[r].behaviour = "resolves"
                THEN executeTry(sched.runs[r])
                ELSE executeCatch(sched.runs[r])
     IN sched' = [sched EXCEPT !.runs[r] = run,
                               !.table = TableAfter(@, run)]
  /\ JobsUnchanged

InitJobs ==
  /\ AllElseIdle
  /\ sp = IdleSplit

NextJobs ==
  \/ \E name \in JobNames : register(name)
  \/ \E name \in JobNames, behaviour \in TaskBehaviours :
        runJobNow(name, behaviour)
  \/ \E name \in JobNames, behaviour \in TaskBehaviours :
        cronTick(name, behaviour)
  \/ \E r \in 1..MaxRuns : taskSettled(r)

SpecJobs == InitJobs /\ [][NextJobs]_vars

Returns == lastIngest'.status # "error"

NextIngestOk ==
  \/ \E req \in Requests : IngestCall(req) /\ Returns
  \/ \E chunkSize \in 1..MaxChunkSize, chunkOverlap \in 0..MaxChunkOverlap :
        IngestLookup(chunkSize, chunkOverlap) /\ Returns
  \/ IngestEmbedded(TRUE)
  \/ \E detectEntities \in BOOLEAN :
        IngestSummarized(TRUE, detectEntities) /\ Returns
  \/ \E detectEntities \in BOOLEAN :
        IngestVectorUpserted(TRUE, detectEntities) /\ Returns
  \/ \E names \in SUBSET Names, type \in ExtractedTypes :
        IngestExtracted(TRUE, names, type)

SpecIngestOk == Init /\ [][NextIngestOk]_vars

\* the entries of the chunk vector collection that carry the docId
VectorsOf(cv, docId) == {id \in DOMAIN cv : cv[id].docId = docId}

\* one vector per doc_chunks row, under the row's id and with its metadata
StoresAgree ==
  /\ Cardinality(DOMAIN chunkVectors) = Cardinality(db.doc_chunks)
  /\ DOMAIN chunkVectors = {c.id : c \in db.doc_chunks}
  /\ \A c \in db.doc_chunks :
       /\ chunkVectors[c.id].chunkId = c.id
       /\ chunkVectors[c.id].docId = c.doc_id
       /\ chunkVectors[c.id].positionStart = c.position_start
       /\ chunkVectors[c.id].positionEnd = c.position_end

\* the document the step works on: the one in flight, or the one returned
StepDoc == IF ingest'.pc = "idle" THEN lastIngest'.docId ELSE ingest'.docId

Waiting == IF tasks = <<>> THEN IdleIngest ELSE tasks[1].call

\* the call that runs reaches an await (or no call runs) and the event loop
\* continues the other call, or lets a new call start
resumeOther ==
  /\ ingest.pc # "idle" \/ tasks # <<>>
  /\ ingest' = Waiting
  /\ tasks' = IF ingest.pc = "idle" THEN <<>>
              ELSE <<[id |-> ingest.docId, call |-> ingest]>>
  /\ UNCHANGED <<db, txOpen, txSnapshot, chunkVectors, lastIngest, prevIngest,
                 pre, deletedDocs, now, sp, txlog, seen, ServiceVars,
                 SystemVars>>

NextIngestPair ==
  \/ \E req \in Requests : IngestCall(req) /\ Returns
  \/ \E chunkSize \in 1..MaxChunkSize, chunkOverlap \in 0..MaxChunkOverlap :
        IngestLookup(chunkSize, chunkOverlap) /\ Returns
  \/ IngestEmbedded(TRUE)
  \/ \E detectEntities \in BOOLEAN :
        IngestSummarized(TRUE, detectEntities) /\ Returns
  \/ \E detectEntities \in BOOLEAN :
        IngestVectorUpserted(TRUE, detectEntities) /\ Returns
  \/ \E names \in SUBSET Names, type \in ExtractedTypes :
        IngestExtracted(TRUE, names, type)
  \/ resumeOther

SpecIngestPair == Init /\ [][NextIngestPair]_vars

NoIngestInFlight == ingest.pc = "idle" /\ tasks = <<>>

\* C25: when two ingest calls of the same content, overlapping or not, have
\* both returned and no call is in flight, they returned the same document
\* id and the same chunkCount, that chunkCount is the number of chunks of
\* the document, and exactly one document row has that hash.
C25_ConcurrentIdempotent ==
  (NoIngestInFlight /\ TwiceInSequence) =>
    /\ lastIngest.docId = prevIngest.docId
    /\ lastIngest.chunkCount = prevIngest.chunkCount
    /\ lastIngest.chunkCount =
         Cardinality(DocumentChunkRepository_listByDocument(db, lastIngest.docId))
    /\ Cardinality(DocumentRepository_findByHash(db, lastIngest.hash)) = 1

(***************************************************************************)
(* Ingest with a hashOverride (specification SpecKnownHash): the actions   *)
(* of Spec, and calls whose request carries a hashOverride.                *)
(***************************************************************************)
NextKnownHash ==
  \/ \E req \in RequestsWithHash : IngestCall(req)
  \/ Next

SpecKnownHash == Init /\ [][NextKnownHash]_vars

\* the text #loadContent hands to ingest
LoadedText(req) == IF Truthy(req.content) THEN req.content ELSE req.file

\* the documents whose hash is the hashOverride of the call in flight, or
\* without an override the hash of its text
KnownByHash ==
  {r \in db.documents :
     r.hash = IF ingest.req.hashOverride # NoHash THEN ingest.req.hashOverride
              ELSE hashContent(LoadedText(ingest.req))}

\* the step of a call from the loaded content to its first await or return
LookupStep ==
  /\ ingest.pc = "load"
  /\ ingest'.pc # "idle" \/ lastIngest'.stage \in {"existing", "split"}

\* C26: when the content of an ingest call is loaded and a document with the
\* call's hash (the hashOverride, or else the hash of the text) exists, the
\* call returns that document and the number of its chunk rows without
\* reaching the embedding, summary or extraction step, and the relational
\* store with its full-text index and both vector collections are unchanged.
C26_KnownHashNoOp ==
  [][(LookupStep /\ KnownByHash # {}) =>
       /\ ingest'.pc = "idle"
       /\ lastIngest'.status = "ok"
       /\ lastIngest'.stage = "existing"
       /\ \E r \in KnownByHash :
            /\ lastIngest'.docId = r.id
            /\ lastIngest'.chunkCount = Cardinality(
                 DocumentChunkRepository_listByDocument(db, r.id))
       /\ UNCHANGED <<db, chunkVectors, memoryVectors>>]_vars

\* a document stored under an overriding hash from a text without chunks was
\* found again by that hash, with an entity in the store
C26_Witness ==
  /\ IngestFinished
  /\ lastIngest.stage = "existing"
  /\ lastIngest.hash = hashContent(1)
  /\ lastIngest.chunkCount = 0
  /\ prevIngest.stage = "created"
  /\ prevIngest.docId = lastIngest.docId
  /\ db.entities # {}

(***************************************************************************)
(* Entity tags and re-observation (specification SpecTags): createEntity,  *)
(* tagEntity, getTags and ensureEntities, which getEntitiesInDocument and  *)
(* getEntitiesInMemory call with the extracted entities.                   *)
(***************************************************************************)
\* UPDATE entities SET tags = ? WHERE id = ?;
KnowledgeGraphRepository_setEntityTags(d, id, tags) ==
  KnowledgeGraphRepository_updateEntity(d, id, [tags |-> tags])

\* SELECT DISTINCT j.value AS tag FROM entities e JOIN json_each(e.tags) AS j
KnowledgeGraphRepository_getAllTags(d) == UNION {e.tags : e \in d.entities}

\* service.tagEntity({entityId, tags}): throws for a missing entity, else
\* stores the union of the entity's tags and the given ones
tagEntity(entityId, tags) ==
  /\ LET entity == KnowledgeGraphRepository_findById(db, entityId)
     IN IF entity = {} THEN UNCHANGED db
        ELSE db' = KnowledgeGraphRepository_setEntityTags(db, entityId,
                     (CHOOSE e \in entity : TRUE).tags \cup tags)
  /\ UNCHANGED <<seen, now>>
  /\ KgUnchanged

TagIds == {1, 2}

NextTags ==
  \/ \E name \in Names, type \in EntityTypes, tags \in TagSets :
        createEntity(name, type, tags)
  \/ \E id \in TagIds, tags \in TagSets \ {{}} : tagEntity(id, tags)
  \/ \E names \in SUBSET Names, type \in EntityTypes :
        ensureEntities(names, type)
  \/ Tick

SpecTags == InitKg /\ [][NextTags]_vars

\* C27: a step of ensureEntities leaves every entity it observes again (one
\* whose name is among the observed names) with its id, its type and its
\* tag set, and every tag getTags returned before is returned after it.
C27_ReobserveKeepsTags ==
  [][\A names \in SUBSET Names, type \in EntityTypes :
       ensureEntities(names, type) =>
         /\ \A e \in db.entities :
              e.name \in names =>
                \E e2 \in db'.entities :
                   /\ e2.name = e.name
                   /\ e2.id = e.id
                   /\ e2.type = e.type
                   /\ e2.tags = e.tags
         /\ KnowledgeGraphRepository_getAllTags(db)
              \subseteq KnowledgeGraphRepository_getAllTags(db')]_vars

(***************************************************************************)
(* The memory vector entry against the memory row (specification           *)
(* SpecMemoryVector): addMemory and updateMemory calls with valid layers   *)
(* and importances, one call after another.                                *)
(***************************************************************************)
\* the patches of updateMemory: each changes one field to a valid value
ValidPatches ==
  [layer : Layers] \cup [importance : {5, 8}] \cup [content : {"c2", ""}]

\* the caller whose calls run, each after the one before has settled
FirstCaller == {1}

NextMemoryVector ==
  \/ \E t \in FirstCaller, layer \in Layers :
        addMemoryCall(t, layer, NoImportance)
  \/ \E t \in FirstCaller : addMemoryEmbedded(t)
  \/ \E t \in FirstCaller, id \in MemoryIds, patch \in ValidPatches :
        updateMemoryCall(t, id, patch)
  \/ \E t \in FirstCaller : updateMemoryEmbedded(t)
  \/ \E t \in FirstCaller : memoryVectorUpserted(t)

SpecMemoryVector == InitMemory /\ [][NextMemoryVector]_vars

NoMemoryCallInFlight == \A t \in Callers : tasks[t].pc = "idle"

\* C28: whenever no addMemory or updateMemory call is in flight, every
\* memory row has an entry in the memory vector collection with the row's
\* layer and importance and the vector computed from the row's content.
C28_VectorTracksRow ==
  NoMemoryCallInFlight =>
    \A m \in db.memories :
      /\ m.id \in DOMAIN memoryVectors
      /\ memoryVectors[m.id].layer = m.layer
      /\ memoryVectors[m.id].importance = m.importance
      /\ memoryVectors[m.id].vector = embed(m.content)

(***************************************************************************)
(* readGraph with a relationType (specification SpecReadGraphTyped): the   *)
(* stored edges carry one of two relations and the call may filter on one. *)
(***************************************************************************)
EdgeRelations == {"knows", "likes"}

RECURSIVE WithTypedEdges(_, _, _, _)
WithTypedEdges(d, pairs, relations, i) ==
  IF i > Len(pairs) THEN d
  ELSE WithTypedEdges(
         KnowledgeGraphRepository_upsertEdge(d,
           [id |-> i, src |-> pairs[i][1], dst |-> pairs[i][2],
            relation |-> relations[i]]),
         pairs, relations, i + 1)

\* the call is readGraph({entityId: 1, depth, relationType}) with no
\* relationType or with "knows"
InitReadGraphTyped ==
  /\ \E pairs \in EdgeLists :
       \E relations \in [1..Len(pairs) -> EdgeRelations] :
         db = WithTypedEdges(WithEntities(EmptyDb, 1), pairs, relations, 1)
  /\ \E depth \in 1..MaxDepth, relationType \in {NoRelationType, "knows"} :
       walk = [ReadGraphCall(1, depth) EXCEPT !.relationType = relationType]
  /\ WalkElseIdle

SpecReadGraphTyped == InitReadGraphTyped /\ [][NextReadGraph]_vars

\* the edges the call may traverse
TraversedEdges ==
  IF walk.relationType = NoRelationType THEN db.kg_edges
  ELSE {r \in db.kg_edges : r.relation = walk.relationType}

\* the entities within k undirected hops of one of S
RECURSIVE WithinHops(_, _)
WithinHops(S, k) ==
  IF k = 0 THEN S
  ELSE WithinHops(
         S \cup {r.dst : r \in {x \in TraversedEdges : x.src \in S}}
           \cup {r.src : r \in {x \in TraversedEdges : x.dst \in S}},
         k - 1)

\* C29: when readGraph returns for an existing root and a depth of 1 or
\* more, its neighbors list holds, once each, exactly the entities other
\* than the root within depth undirected hops of the root over the edges of
\* the requested relationType (all edges when none is requested), and its
\* relations are exactly those edges that touch the root.
C29_BoundedNeighborhood ==
  ReadGraphReturned =>
    /\ Range(walk.neighbors)
         = WithinHops({walk.entityId}, walk.depth) \ {walk.entityId}
    /\ EachEntityOnce
    /\ walk.relations =
         {r \in TraversedEdges : r.src = walk.entityId \/ r.dst = walk.entityId}

\* readGraph(1) with depth 2 and relationType "knows" has returned entity 2
\* alone, entity 3 being tied to entity 2 by a "likes" edge only
C29_Witness ==
  /\ ReadGraphReturned
  /\ walk.relationType = "knows"
  /\ walk.depth = 2
  /\ walk.neighbors = <<2>>
  /\ \E r \in db.kg_edges : r.relation = "likes" /\ r.src = 2 /\ r.dst = 3
  /\ \A r \in db.kg_edges : r.relation = "knows" => 3 \notin {r.src, r.dst}

(***************************************************************************)
(* searchMemories with filters (specification SpecSearchFilter): two       *)
(* stored memories, each with the vector entry addMemory wrote for it, and *)
(* requests whose query and queryVector, when given, match every memory.   *)
(***************************************************************************)
\* a memory row with its session and episode
FilterRow(id, layer, importance, sessionId) ==
  [id |-> id, layer |-> layer, content |-> "c1", summary |-> Null,
   importance |-> importance, session_id |-> sessionId, episode_id |-> "e1"]

\* the filters of a MemorySearchRequest (Null and NoImportance: left out),
\* and whether it carries a query and a queryVector
SearchRequests ==
  [layers : {<<>>, <<"stm">>, <<"stm", "ltm">>},
   minImportance : {NoImportance, 5},
   sessionId : {Null, "s1"},
   episodeId : {Null, "e2"},
   query : BOOLEAN, queryVector : BOOLEAN]

\* queryMemories: the entries that pass makeEqFilter("layer", options.layer)
\* and makeGteFilter("importance", options.minImportance)
VectraAdapter_queryMemories(mv, options) ==
  {id \in DOMAIN mv :
     /\ options.layer # Null => mv[id].layer = options.layer
     /\ options.minImportance # NoImportance =>
          mv[id].importance >= options.minImportance}

\* #searchFts: the joined rows that pass the layer, session_id and
\* episode_id conditions
FtsMatches(d, request) ==
  {m.id : m \in
     {m \in d.memories :
        /\ \E r \in BagToSet(d.fts_memories) : r.memory_id = m.id
        /\ request.layers # <<>> => m.layer \in Range(request.layers)
        /\ request.sessionId # Null => m.session_id = request.sessionId
        /\ request.episodeId # Null => m.episode_id = request.episodeId}}

\* searchMemories(request) up to the await in #collectScores
searchMemoriesCall(request, topK) ==
  /\ search.pc \in {"idle", "done"}
  /\ LET indexed ==
           IF request.queryVector
           THEN VectraAdapter_queryMemories(memoryVectors,
                  [layer |-> IF request.layers = <<>> THEN Null
                             ELSE request.layers[1],
                   minImportance |-> request.minImportance])
           ELSE {}
         joined == IF request.query THEN FtsMatches(db, request) ELSE {}
     IN \E vectorResults \in
             AllHits(VectorHits(indexed, {5}, topK), indexed, topK),
           ftsRows \in AllHits(FtsRows(joined, {-1}, topK), joined, topK) :
          search' = SearchCall(topK, vectorResults, ftsRows, {})
                      @@ [request |-> request]
  /\ SearchUnchanged

InitSearchFilter ==
  /\ \E layer \in Layers, importance \in {3, 9}, sessionId \in {"s1", "s2"} :
       /\ db = InsertMemory(
                 InsertMemory(EmptyDb, FilterRow(1, "stm", 9, "s1")),
                 FilterRow(2, layer, importance, sessionId))
       /\ memoryVectors =
            VectraAdapter_upsertMemoryVector(
              VectraAdapter_upsertMemoryVector(<<>>,
                [memoryId |-> 1, layer |-> "stm", importance |-> 9,
                 vector |-> embed("c1")]),
              [memoryId |-> 2, layer |-> layer, importance |-> importance,
               vector |-> embed("c1")])
  /\ txOpen = FALSE
  /\ txSnapshot = EmptyDb
  /\ chunkVectors = <<>>
  /\ ingest = IdleIngest
  /\ lastIngest = NoResult
  /\ prevIngest = NoResult
  /\ pre = NoStores
  /\ deletedDocs = {}
  /\ now = 1
  /\ sp = IdleSplit
  /\ tasks = <<>>
  /\ txlog = NoTxLog
  /\ seen = <<>>
  /\ walk = IdleWalk
  /\ search = IdleSearch
  /\ deletedMemories = {}
  /\ lastCall = NoCall
  /\ SystemIdle

NextSearchFilter ==
  \/ \E request \in SearchRequests : searchMemoriesCall(request, MaxTopK)
  \/ SearchCollect
  \/ SearchReturn

SpecSearchFilter == InitSearchFilter /\ [][NextSearchFilter]_vars

\* the memory row satisfies every filter the request carries
SatisfiesFilters(m, request) ==
  /\ request.layers # <<>> => m.layer \in Range(request.layers)
  /\ request.minImportance # NoImportance =>
       m.importance >= request.minImportance
  /\ request.sessionId # Null => m.session_id = request.sessionId
  /\ request.episodeId # Null => m.episode_id = request.episodeId

\* C30: when searchMemories has returned, every returned memory satisfies
\* all filters of the request, and, topK being no less than the number of
\* stored memories, every stored memory that satisfies them is returned when
\* the request carries a query or a queryVector.
C30_FiltersBindResults ==
  SearchReturned =>
    /\ \A i \in DOMAIN search.results :
         \A m \in MemoryRepository_findById(db, search.results[i].id) :
            SatisfiesFilters(m, search.request)
    /\ (search.request.query \/ search.request.queryVector) =>
         \A m \in db.memories :
            SatisfiesFilters(m, search.request) =>
              \E i \in DOMAIN search.results : search.results[i].id = m.id

====
